---- MODULE Spec2Model ----
(***************************************************************************)
(* Model of the argparse-go library (package argparse): the definition     *)
(* registry (Parser / Argument), Parser.Parse with its token walk,         *)
(* subcommand delegation and required check, parseValue, ParseOrExit and   *)
(* the Get* retrieval methods.                                             *)
(*                                                                         *)
(* Go strings are TLA+ strings (ASCII only, so a byte offset is a          *)
(* character index); interface{} values are tagged records; a Go map is a  *)
(* function whose DOMAIN is the key set; pointers to Parser are indices    *)
(* into the variable parsers.                                              *)
(***************************************************************************)
EXTENDS Integers, Sequences, FiniteSets, TLC

(***************************************************************************)
(* Bounds of the model.                                                    *)
(***************************************************************************)
MaxTokens == 2      \* longest explicit token sequence handed to Parse
MaxCalls == 2       \* library calls a program makes once it is built

(***************************************************************************)
(* String helpers (package strings, slicing).                              *)
(***************************************************************************)
Char(s, k) == SubSeq(s, k, k)

\* s[k:] with a 0-based Go offset k
From(s, k) == SubSeq(s, k + 1, Len(s))

HasPrefix(s, pre) == Len(s) >= Len(pre) /\ SubSeq(s, 1, Len(pre)) = pre

\* 1-based position of the first occurrence of the one-character string c, 0 if none
IndexOf(s, c) ==
    IF \E k \in 1..Len(s) : Char(s, k) = c
    THEN CHOOSE k \in 1..Len(s) : Char(s, k) = c /\ \A m \in 1..(k - 1) : Char(s, m) # c
    ELSE 0

\* strings.SplitN(s, "=", 2)
SplitN2(s) ==
    LET k == IndexOf(s, "=")
    IN  IF k = 0 THEN <<s>> ELSE <<SubSeq(s, 1, k - 1), SubSeq(s, k + 1, Len(s))>>

RECURSIVE Split(_, _)
\* strings.Split(s, sep) for a one-character separator
Split(s, sep) ==
    LET k == IndexOf(s, sep)
    IN  IF k = 0 THEN <<s>> ELSE <<SubSeq(s, 1, k - 1)>> \o Split(SubSeq(s, k + 1, Len(s)), sep)

Digits == {"0", "1", "2", "3", "4", "5", "6", "7", "8", "9"}

IsDigit(c) == c \in Digits

DigitVal(c) ==
    CASE c = "0" -> 0 [] c = "1" -> 1 [] c = "2" -> 2 [] c = "3" -> 3 [] c = "4" -> 4
      [] c = "5" -> 5 [] c = "6" -> 6 [] c = "7" -> 7 [] c = "8" -> 8 [] c = "9" -> 9

DigitChar(d) == Char("0123456789", d + 1)

AllDigits(s) == \A k \in 1..Len(s) : IsDigit(Char(s, k))

RECURSIVE DigitsVal(_)
DigitsVal(s) ==
    IF s = "" THEN 0 ELSE DigitsVal(SubSeq(s, 1, Len(s) - 1)) * 10 + DigitVal(Char(s, Len(s)))

RECURSIVE NatStr(_)
\* decimal text of a natural number (strconv.Itoa / %d)
NatStr(n) == IF n < 10 THEN DigitChar(n) ELSE NatStr(n \div 10) \o DigitChar(n % 10)

IntStr(n) == IF n < 0 THEN "-" \o NatStr(0 - n) ELSE NatStr(n)

RECURSIVE Pow10(_)
Pow10(k) == IF k = 0 THEN 1 ELSE 10 * Pow10(k - 1)

\* %02d / %04d
Pad(n, width) ==
    LET s == NatStr(n)
    IN  IF Len(s) >= width THEN s ELSE SubSeq("0000", 1, width - Len(s)) \o s

(***************************************************************************)
(* interface{} values.  A float64 is kept as the decimal it was written    *)
(* as, mantissa m and e decimals (m / 10^e), normalised; every decimal of  *)
(* the model has far fewer than 15 significant digits, so two decimals are *)
(* the same float64 exactly when they are the same decimal.                *)
(***************************************************************************)
Nil == [t |-> "nil"]

VString(s) == [t |-> "string", s |-> s]

VInt(n) == [t |-> "int", i |-> n]

VBool(b) == [t |-> "bool", b |-> b]

VList(l) == [t |-> "[]string", l |-> l]

RECURSIVE NormFloat(_, _)
NormFloat(m, e) ==
    IF e > 0 /\ m % 10 = 0 THEN NormFloat(m \div 10, e - 1) ELSE [m |-> m, e |-> e, special |-> ""]

VFloat(m, e) == [t |-> "float64", f |-> NormFloat(m, e)]

\* the float64 values that are no decimal: +Inf, -Inf, NaN
VSpecial(name) == [t |-> "float64", f |-> [m |-> 0, e |-> 0, special |-> name]]

VTime(Y, M, D, h, mi, s, ns, off) ==
    [t |-> "time.Time", Y |-> Y, M |-> M, D |-> D, h |-> h, mi |-> mi, s |-> s, ns |-> ns, off |-> off]

\* time.Time{}
ZeroTime == VTime(1, 1, 1, 0, 0, 0, 0, "UTC")

Ok(v) == [ok |-> TRUE, v |-> v, err |-> ""]

Fail(msg) == [ok |-> FALSE, v |-> Nil, err |-> msg]

(***************************************************************************)
(* package strconv: Atoi, ParseFloat, ParseBool, and the text of their     *)
(* errors (strconv.NumError).  Numeric tokens of the model have at most    *)
(* nine digits, so strconv.ErrRange does not arise.                        *)
(***************************************************************************)
NumError(fn, s) == "strconv." \o fn \o ": parsing \"" \o s \o "\": invalid syntax"

HasSign(s) == Len(s) > 0 /\ Char(s, 1) \in {"+", "-"}

Unsigned(s) == IF HasSign(s) THEN Tail(s) ELSE s

Signed(s, n) == IF HasSign(s) /\ Char(s, 1) = "-" THEN 0 - n ELSE n

Atoi(s) ==
    LET body == Unsigned(s)
    IN  IF body = "" \/ ~AllDigits(body)
        THEN Fail(NumError("Atoi", s))
        ELSE Ok(VInt(Signed(s, DigitsVal(body))))

Lower(c) ==
    CASE c = "I" -> "i" [] c = "N" -> "n" [] c = "F" -> "f" [] c = "T" -> "t"
      [] c = "Y" -> "y" [] c = "A" -> "a" [] OTHER -> c

RECURSIVE ToLower(_)
ToLower(s) == IF s = "" THEN "" ELSE Lower(Char(s, 1)) \o ToLower(Tail(s))

\* position of the exponent marker, 0 if none
ExpIndex(s) == IF IndexOf(s, "e") # 0 THEN IndexOf(s, "e") ELSE IndexOf(s, "E")

\* the decimal m / 10^dec with the sign of s
Decimal(s, m, dec) ==
    IF dec >= 0 THEN Ok(VFloat(Signed(s, m), dec))
    ELSE Ok(VFloat(Signed(s, m * Pow10(0 - dec)), 0))

\* the digits of the mantissa, nfrac of them after the dot, and the exponent
Mantissa(s, digits, nfrac, expo) ==
    IF digits = "" \/ ~AllDigits(digits) \/ Unsigned(expo) = "" \/ ~AllDigits(Unsigned(expo))
    THEN Fail(NumError("ParseFloat", s))
    ELSE Decimal(s, DigitsVal(digits), nfrac - Signed(expo, DigitsVal(Unsigned(expo))))

\* the mantissa split at its dot (dot = 0: none)
SplitDot(s, mant, dot, expo) ==
    IF dot = 0 THEN Mantissa(s, mant, 0, expo)
    ELSE Mantissa(s, SubSeq(mant, 1, dot - 1) \o SubSeq(mant, dot + 1, Len(mant)),
                  Len(mant) - dot, expo)

\* the unsigned text split at its exponent marker (x = 0: none)
SplitExp(s, body, x) ==
    IF x = 0 THEN SplitDot(s, body, IndexOf(body, "."), "0")
    ELSE SplitDot(s, SubSeq(body, 1, x - 1), IndexOf(SubSeq(body, 1, x - 1), "."),
                  SubSeq(body, x + 1, Len(body)))

\* decimal floating-point syntax: [sign] digits [. digits] [e [sign] digits],
\* Inf / Infinity with an optional sign, NaN; hexadecimal floats are not in
\* the alphabet of the model
ParseFloat(s) ==
    IF ToLower(Unsigned(s)) \in {"inf", "infinity"}
    THEN Ok(VSpecial(IF Signed(s, 1) < 0 THEN "-Inf" ELSE "+Inf"))
    ELSE IF ToLower(s) = "nan"
    THEN Ok(VSpecial("NaN"))
    ELSE SplitExp(s, Unsigned(s), ExpIndex(Unsigned(s)))

ParseBool(s) ==
    IF s \in {"1", "t", "T", "TRUE", "true", "True"} THEN Ok(VBool(TRUE))
    ELSE IF s \in {"0", "f", "F", "FALSE", "false", "False"} THEN Ok(VBool(FALSE))
    ELSE Fail(NumError("ParseBool", s))

(***************************************************************************)
(* package time: Parse for the layouts parseValue tries.  A layout is the  *)
(* sequence of its chunks: a standard chunk ("2006", "01", "02", "15",     *)
(* "04", "05", "Z07:00") or a literal character.                           *)
(***************************************************************************)
RFC3339 == <<"2006", "-", "01", "-", "02", "T", "15", ":", "04", ":", "05", "Z07:00">>

LayoutDate == <<"2006", "-", "01", "-", "02">>

LayoutDateTime == <<"2006", "-", "01", "-", "02", " ", "15", ":", "04", ":", "05">>

LayoutUSDate == <<"01", "/", "02", "/", "2006">>

LayoutUSDateTime == <<"01", "/", "02", "/", "2006", " ", "15", ":", "04", ":", "05">>

formats == <<RFC3339, LayoutDate, LayoutDateTime, LayoutUSDate, LayoutUSDateTime>>

IsLeap(y) == y % 4 = 0 /\ (y % 100 # 0 \/ y % 400 = 0)

daysIn(m, y) ==
    IF m = 2 THEN (IF IsLeap(y) THEN 29 ELSE 28)
    ELSE IF m \in {4, 6, 9, 11} THEN 30 ELSE 31

\* getnum(s, fixed): one or two leading digits; fixed demands two
getnum(s, fixed) ==
    IF Len(s) < 1 \/ ~IsDigit(Char(s, 1)) THEN [ok |-> FALSE, n |-> 0, rest |-> s]
    ELSE IF Len(s) < 2 \/ ~IsDigit(Char(s, 2))
    THEN (IF fixed THEN [ok |-> FALSE, n |-> 0, rest |-> s]
          ELSE [ok |-> TRUE, n |-> DigitVal(Char(s, 1)), rest |-> Tail(s)])
    ELSE [ok |-> TRUE, n |-> DigitsVal(SubSeq(s, 1, 2)), rest |-> From(s, 2)]

\* number of leading digits of s
RECURSIVE LeadingDigits(_)
LeadingDigits(s) ==
    IF s # "" /\ IsDigit(Char(s, 1)) THEN 1 + LeadingDigits(Tail(s)) ELSE 0

\* the fractional second accepted after "05" when the layout has none:
\* value = "." or "," and n - 1 digits; parseNanoseconds keeps nine of them
parseNanoseconds(value, n) ==
    LET nbytes == IF n > 10 THEN 10 ELSE n
        ns     == DigitsVal(SubSeq(value, 2, nbytes))
    IN  ns * Pow10(10 - nbytes)

TimeStart(value) ==
    [ok |-> TRUE, value |-> value, Y |-> 0, M |-> 1, D |-> 1, h |-> 0, mi |-> 0, s |-> 0,
     ns |-> 0, off |-> "UTC"]

Bad(st) == [st EXCEPT !.ok = FALSE]

\* one chunk of the layout applied to the rest of the value
TimeChunk(chunk, st) ==
    LET value == st.value
    IN  CASE chunk = "2006" ->
               IF Len(value) < 4 \/ ~AllDigits(SubSeq(value, 1, 4)) THEN Bad(st)
               ELSE [st EXCEPT !.Y = DigitsVal(SubSeq(value, 1, 4)), !.value = From(value, 4)]
          [] chunk = "01" ->
               LET g == getnum(value, TRUE)
               IN  IF ~g.ok \/ g.n <= 0 \/ 12 < g.n THEN Bad(st)
                   ELSE [st EXCEPT !.M = g.n, !.value = g.rest]
          [] chunk = "02" ->
               LET g == getnum(value, TRUE)
               IN  IF ~g.ok THEN Bad(st) ELSE [st EXCEPT !.D = g.n, !.value = g.rest]
          [] chunk = "15" ->
               LET g == getnum(value, FALSE)
               IN  IF ~g.ok \/ 24 <= g.n THEN Bad(st)
                   ELSE [st EXCEPT !.h = g.n, !.value = g.rest]
          [] chunk = "04" ->
               LET g == getnum(value, TRUE)
               IN  IF ~g.ok \/ 60 <= g.n THEN Bad(st)
                   ELSE [st EXCEPT !.mi = g.n, !.value = g.rest]
          [] chunk = "05" ->
               LET g == getnum(value, TRUE)
                   r == g.rest
                   n == 1 + LeadingDigits(Tail(r))
               IN  IF ~g.ok \/ 60 <= g.n THEN Bad(st)
                   ELSE IF Len(r) >= 2 /\ Char(r, 1) \in {".", ","} /\ IsDigit(Char(r, 2))
                   THEN [st EXCEPT !.s = g.n, !.ns = parseNanoseconds(r, n), !.value = From(r, n)]
                   ELSE [st EXCEPT !.s = g.n, !.value = r]
          [] chunk = "Z07:00" ->
               IF Len(value) >= 1 /\ Char(value, 1) = "Z"
               THEN [st EXCEPT !.off = "UTC", !.value = Tail(value)]
               ELSE IF Len(value) < 6 \/ Char(value, 4) # ":" THEN Bad(st)
               ELSE LET hr == getnum(SubSeq(value, 2, 3), TRUE)
                        mm == getnum(SubSeq(value, 5, 6), TRUE)
                    IN  IF ~hr.ok \/ ~mm.ok \/ Char(value, 1) \notin {"+", "-"}
                           \/ hr.n > 24 \/ mm.n > 60
                        THEN Bad(st)
                        ELSE [st EXCEPT !.off = IntStr(Signed(Char(value, 1), (hr.n * 60 + mm.n) * 60)),
                                        !.value = From(value, 6)]
          [] OTHER ->
               IF HasPrefix(value, chunk) THEN [st EXCEPT !.value = From(value, Len(chunk))]
               ELSE Bad(st)

RECURSIVE TimeChunks(_, _, _)
TimeChunks(layout, k, st) ==
    IF ~st.ok \/ k > Len(layout) THEN st ELSE TimeChunks(layout, k + 1, TimeChunk(layout[k], st))

\* the end of time.Parse: nothing of the value left over, the day in range
TimeResult(st) ==
    IF ~st.ok \/ st.value # "" \/ st.D < 1 \/ st.D > daysIn(st.M, st.Y)
    THEN Fail("parsing time")
    ELSE Ok(VTime(st.Y, st.M, st.D, st.h, st.mi, st.s, st.ns, st.off))

\* time.Parse(layout, value)
TimeParse(layout, value) == TimeResult(TimeChunks(layout, 1, TimeStart(value)))

(***************************************************************************)
(* ArgumentType and parseValue.                                            *)
(***************************************************************************)
ArgTypeString == 0
ArgTypeInt == 1
ArgTypeFloat == 2
ArgTypeBool == 3
ArgTypeList == 4
ArgTypeCounter == 5
ArgTypeDateTime == 6

RECURSIVE TryFormats(_, _)

\* if t, err := time.Parse(format, value); err == nil { return t, nil }
FirstOk(t, value, k) == IF t.ok THEN t ELSE TryFormats(value, k + 1)

\* the loop over formats: the first layout that parses wins
TryFormats(value, k) ==
    IF k > Len(formats) THEN Fail("invalid datetime format")
    ELSE FirstOk(TimeParse(formats[k], value), value, k)

parseValue(argType, value) ==
    CASE argType = ArgTypeString -> Ok(VString(value))
      [] argType = ArgTypeInt -> Atoi(value)
      [] argType = ArgTypeFloat -> ParseFloat(value)
      [] argType = ArgTypeBool -> ParseBool(value)
      [] argType = ArgTypeList -> Ok(VList(Split(value, ",")))
      [] argType = ArgTypeDateTime -> TryFormats(value, 1)
      [] OTHER -> Ok(VString(value))

(***************************************************************************)
(* Argument and Parser.  The description, epilog and value fields are left *)
(* out: no operation of the model reads them (value is never written by    *)
(* the library either).  parent is the index of the parent parser, 0 for   *)
(* nil.                                                                    *)
(***************************************************************************)
EmptyMap == [k \in {} |-> Nil]

\* &Argument{...}: the configuration bundle a caller passes to a registration
Argument(IsRequired, ArgType, DefaultVal, ValidChoices) ==
    [Name |-> "", ShortName |-> "", IsRequired |-> IsRequired, ArgType |-> ArgType,
     DefaultVal |-> DefaultVal, ValidChoices |-> ValidChoices,
     isSet |-> FALSE, isPositional |-> FALSE, parent |-> 0]

\* &Argument{}, which the registrations substitute for a nil bundle
ZeroArgument == Argument(FALSE, ArgTypeString, Nil, <<>>)

Version == "1.0.0"

NewParserRec(name, version, parent) ==
    [name |-> name, version |-> version, args |-> <<>>, positional |-> <<>>,
     subparsers |-> EmptyMap, parent |-> parent, subparser |-> ""]

Put(m, k, v) == [x \in (DOMAIN m) \cup {k} |-> IF x = k THEN v ELSE m[x]]

\* m[k] of a Go map: the zero value (nil) when k is absent or the map is nil
Lookup(m, k) == IF k \in DOMAIN m THEN m[k] ELSE Nil

(***************************************************************************)
(* The embedding programs.  A program is the sequence of construction      *)
(* calls its main function makes before it parses, the command lines it is *)
(* started with (os.Args[1:]), the tokens explicit Parse calls are built   *)
(* from, and the names it retrieves.  Parsers are numbered in creation     *)
(* order, the root being 1.                                                *)
(***************************************************************************)
Call(op, p, short, long, options, val) ==
    [op |-> op, p |-> p, short |-> short, long |-> long, options |-> options, val |-> val]

NoOptions == [nil |-> TRUE, a |-> ZeroArgument]

Options(a) == [nil |-> FALSE, a |-> a]

\* examples/basic/main.go
BasicCalls ==
    << Call("AddHelp", 1, "", "", NoOptions, Nil),
       Call("AddVersion", 1, "", "", NoOptions, Nil),
       Call("String", 1, "n", "name", Options(Argument(TRUE, ArgTypeString, Nil, <<>>)), Nil),
       Call("Bool", 1, "b", "verbose", Options(Argument(FALSE, ArgTypeString, VBool(FALSE), <<>>)), Nil),
       Call("Positional", 1, "", "file", Options(Argument(TRUE, ArgTypeString, Nil, <<>>)), Nil) >>

\* examples/complete/main.go
CompleteCalls ==
    << Call("AddHelp", 1, "", "", NoOptions, Nil),
       Call("AddVersion", 1, "", "", NoOptions, Nil),
       Call("String", 1, "s", "string", Options(Argument(FALSE, ArgTypeString, VString("default string"), <<>>)), Nil),
       Call("Int", 1, "i", "integer", Options(Argument(FALSE, ArgTypeString, VInt(42), <<>>)), Nil),
       Call("Float", 1, "f", "float", Options(Argument(FALSE, ArgTypeString, VFloat(314, 2), <<>>)), Nil),
       Call("Bool", 1, "b", "boolean", Options(Argument(FALSE, ArgTypeString, VBool(FALSE), <<>>)), Nil),
       Call("List", 1, "l", "list", Options(Argument(FALSE, ArgTypeString, VList(<<"default", "values">>), <<>>)), Nil),
       Call("Counter", 1, "c", "counter", Options(Argument(FALSE, ArgTypeString, VInt(0), <<>>)), Nil),
       Call("DateTime", 1, "d", "datetime", Options(Argument(FALSE, ArgTypeString, Nil, <<>>)), Nil),
       Call("String", 1, "", "choice", Options(Argument(FALSE, ArgTypeString, VString("option1"), <<>>)), Nil),
       Call("Choices", 0, "", "", NoOptions, VList(<<"option1", "option2", "option3">>)),
       Call("String", 1, "r", "required", Options(Argument(TRUE, ArgTypeString, Nil, <<>>)), Nil),
       Call("Positional", 1, "", "positional", Options(Argument(TRUE, ArgTypeString, Nil, <<>>)), Nil) >>

\* the advanced example (task manager with the subcommands add, list, remove)
AdvancedCalls ==
    << Call("AddHelp", 1, "", "", NoOptions, Nil),
       Call("AddVersion", 1, "", "", NoOptions, Nil),
       Call("NewCommand", 1, "", "add", NoOptions, Nil),
       Call("NewCommand", 1, "", "list", NoOptions, Nil),
       Call("NewCommand", 1, "", "remove", NoOptions, Nil),
       Call("String", 2, "t", "title", Options(Argument(TRUE, ArgTypeString, Nil, <<>>)), Nil),
       Call("String", 2, "d", "description", Options(Argument(FALSE, ArgTypeString, Nil, <<>>)), Nil),
       Call("Int", 2, "p", "priority", Options(Argument(FALSE, ArgTypeString, VInt(3), <<>>)), Nil),
       Call("Choices", 0, "", "", NoOptions, VList(<<"1", "2", "3", "4", "5">>)),
       Call("DateTime", 2, "", "due", Options(Argument(FALSE, ArgTypeString, Nil, <<>>)), Nil),
       Call("List", 2, "l", "labels", Options(Argument(FALSE, ArgTypeString, Nil, <<>>)), Nil),
       Call("Bool", 3, "a", "all", Options(Argument(FALSE, ArgTypeString, Nil, <<>>)), Nil),
       Call("String", 3, "s", "sort", Options(Argument(FALSE, ArgTypeString, VString("priority"), <<>>)), Nil),
       Call("Choices", 0, "", "", NoOptions, VList(<<"priority", "date", "title">>)),
       Call("Int", 3, "", "limit", Options(Argument(FALSE, ArgTypeString, VInt(10), <<>>)), Nil),
       Call("Int", 4, "i", "id", Options(Argument(TRUE, ArgTypeString, Nil, <<>>)), Nil),
       Call("Bool", 4, "f", "force", Options(Argument(FALSE, ArgTypeString, Nil, <<>>)), Nil) >>

\* the README's "Argument Customization" calls, with its short-option
\* examples: booleans a and b, a value-taking c, an integer p, a counter v
\* that starts at 2
ClusterCalls ==
    << Call("Bool", 1, "a", "alpha", NoOptions, Nil),
       Call("Bool", 1, "b", "beta", Options(Argument(FALSE, ArgTypeString, VBool(TRUE), <<>>)), Nil),
       Call("String", 1, "c", "gamma", NoOptions, Nil),
       Call("Int", 1, "p", "port", NoOptions, Nil),
       Call("Default", 0, "", "", NoOptions, VInt(8080)),
       Call("Counter", 1, "v", "verbose", Options(Argument(FALSE, ArgTypeString, VInt(2), <<>>)), Nil),
       Call("Positional", 1, "", "input", NoOptions, Nil) >>

\* a required option next to flags, a mode restricted to choices, a
\* boolean switched on by Default(), an untyped Flag, a second Flag under a
\* long name and an alias already taken, and a renamed version
CustomCalls ==
    << Call("SetVersion", 1, "", "", NoOptions, VString("1.2.3")),
       Call("Bool", 1, "a", "all", NoOptions, Nil),
       Call("Default", 0, "", "", NoOptions, VBool(TRUE)),
       Call("String", 1, "n", "name", NoOptions, Nil),
       Call("Required", 0, "", "", NoOptions, Nil),
       Call("String", 1, "m", "mode", Options(Argument(FALSE, ArgTypeString, VString("normal"), <<>>)), Nil),
       Call("Choices", 0, "", "", NoOptions, VList(<<"normal", "fast", "safe">>)),
       Call("Flag", 1, "x", "extra", NoOptions, Nil),
       Call("Flag", 1, "x", "name", NoOptions, Nil),
       Call("Positional", 1, "", "config", Options(Argument(FALSE, ArgTypeString, VString("default.conf"), <<>>)), Nil) >>

\* a subcommand that has a subcommand of its own
NestedCalls ==
    << Call("Counter", 1, "v", "verbose", NoOptions, Nil),
       Call("String", 1, "o", "output", Options(Argument(TRUE, ArgTypeString, Nil, <<>>)), Nil),
       Call("NewCommand", 1, "", "remote", NoOptions, Nil),
       Call("Bool", 2, "v", "verify", NoOptions, Nil),
       Call("NewCommand", 2, "", "add", NoOptions, Nil),
       Call("String", 3, "u", "url", Options(Argument(FALSE, ArgTypeString, VString("origin"), <<>>)), Nil),
       Call("Positional", 3, "", "name", NoOptions, Nil),
       Call("Required", 0, "", "", NoOptions, Nil) >>

Program(calls, procArgs, vocab, names) ==
    [calls |-> calls, procArgs |-> procArgs, vocab |-> vocab, names |-> names]

Programs ==
    [basic |->
        Program(BasicCalls,
                { <<"-n", "Your Name", "test.txt">>, <<"test.txt">>, <<"-h">>, <<"-V">> },
                {"-n", "Al", "--help"},
                {"name", "verbose", "file"}),
     complete |->
        Program(CompleteCalls,
                { <<"-r", "required-value", "-c", "-c", "-c", "-c", "positional-value">>,
                  <<"-r", "required-value", "--choice", "invalid", "positional-value">>,
                  <<"-r", "required-value", "-f", "3.14", "-d", "2023-01-01", "positional-value">> },
                {"--required=x", "pos", "--choice=invalid"},
                {"integer", "float", "list", "datetime", "counter"}),
     advanced |->
        Program(AdvancedCalls,
                { <<"add", "-t", "X">>, <<"list", "-a", "--sort", "date">>, <<"add", "-h">> },
                {"add", "--title=X", "-p"},
                {"subcommand", "title", "all"}),
     cluster |->
        Program(ClusterCalls,
                { <<"-abc", "value">>, <<"-p8080">>, <<"-v", "-v", "--verbose">>,
                  <<"-abc", "value", "x">>, <<"--alpha=false", "--verbose=5", "x">> },
                {"-abc", "value", "-p8080", "-vv"},
                {"alpha", "beta", "port", "verbose"}),
     custom |->
        Program(CustomCalls,
                { <<"-n", "Al", "-m", "turbo">>, <<"--version">>, <<>> },
                {"-an", "Al", "-h", "-az"},
                {"all", "name", "mode", "missing"}),
     nested |->
        Program(NestedCalls,
                { <<"remote", "add", "x">>, <<"remote", "-v">>, <<"-o", "f", "-v">> },
                {"remote", "add", "-v", "x"},
                {"subcommand", "verbose", "name"})]

ProgramNames == DOMAIN Programs

VARIABLES
    parsers,    \* the Parser objects, in creation order
    prog,       \* the embedding program
    pc,         \* the next construction call of the program; past the end once it runs
    lastArg,    \* the *Argument the last registration returned
    osArgs,     \* os.Args[1:]
    exited,     \* -1 while the process runs, else its exit status
    ncalls,     \* the number of library calls the running program has made
    last        \* the last library call made and what it returned

vars == <<parsers, prog, pc, lastArg, osArgs, exited, ncalls, last>>

script == Programs[prog].calls

NoCall == [op |-> "none"]

NoArg == [p |-> 0, list |-> "", k |-> 0]

Init ==
    /\ prog \in ProgramNames
    /\ osArgs \in Programs[prog].procArgs
    /\ parsers = << NewParserRec(prog, Version, 0) >>
    /\ pc = 1
    /\ lastArg = NoArg
    /\ exited = -1
    /\ ncalls = 0
    /\ last = NoCall

(***************************************************************************)
(* Construction: NewCommand, Flag and the typed registrations, Positional  *)
(* and the modifiers.                                                      *)
(***************************************************************************)
Building(op) == pc <= Len(script) /\ script[pc].op = op /\ exited = -1

Built ==
    /\ pc' = pc + 1
    /\ UNCHANGED <<prog, osArgs, exited, ncalls, last>>

\* the bundle a registration works on: options, or &Argument{} when nil
Bundle(options) == IF options.nil THEN ZeroArgument ELSE options.a

\* Parser.Flag on a bundle
FlagOn(ps, p, shortName, longName, a) ==
    [ps EXCEPT ![p].args =
        Append(@, [a EXCEPT !.ShortName = shortName, !.Name = longName,
                            !.isPositional = FALSE, !.parent = p])]

Registered(p) ==
    /\ lastArg' = [p |-> p, list |-> "args", k |-> Len(parsers[p].args) + 1]
    /\ Built

Flag ==
    /\ Building("Flag")
    /\ LET c == script[pc]
       IN  parsers' = FlagOn(parsers, c.p, c.short, c.long, Bundle(c.options))
    /\ Registered(script[pc].p)

AddHelp ==
    /\ Building("AddHelp")
    /\ parsers' = FlagOn(parsers, script[pc].p, "h", "help", Argument(FALSE, ArgTypeBool, VBool(FALSE), <<>>))
    /\ Registered(script[pc].p)

AddVersion ==
    /\ Building("AddVersion")
    /\ parsers' = FlagOn(parsers, script[pc].p, "V", "version", Argument(FALSE, ArgTypeBool, VBool(FALSE), <<>>))
    /\ Registered(script[pc].p)

\* the registrations that only set the type: String, Int, Float, DateTime
Typed(op, argType) ==
    /\ Building(op)
    /\ LET c == script[pc]
       IN  parsers' = FlagOn(parsers, c.p, c.short, c.long, [Bundle(c.options) EXCEPT !.ArgType = argType])
    /\ Registered(script[pc].p)

String == Typed("String", ArgTypeString)

ParserInt == Typed("Int", ArgTypeInt)

Float == Typed("Float", ArgTypeFloat)

DateTime == Typed("DateTime", ArgTypeDateTime)

BoolBundle(a) == [a EXCEPT !.ArgType = ArgTypeBool, !.DefaultVal = VBool(FALSE)]

Bool ==
    /\ Building("Bool")
    /\ LET c == script[pc]
       IN  parsers' = FlagOn(parsers, c.p, c.short, c.long, BoolBundle(Bundle(c.options)))
    /\ Registered(script[pc].p)

ListBundle(a) ==
    [a EXCEPT !.ArgType = ArgTypeList,
              !.DefaultVal = IF @ = Nil THEN VList(<<>>) ELSE @]

List ==
    /\ Building("List")
    /\ LET c == script[pc]
       IN  parsers' = FlagOn(parsers, c.p, c.short, c.long, ListBundle(Bundle(c.options)))
    /\ Registered(script[pc].p)

CounterBundle(a) ==
    [a EXCEPT !.ArgType = ArgTypeCounter,
              !.DefaultVal = IF @ = Nil THEN VInt(0) ELSE @]

Counter ==
    /\ Building("Counter")
    /\ LET c == script[pc]
       IN  parsers' = FlagOn(parsers, c.p, c.short, c.long, CounterBundle(Bundle(c.options)))
    /\ Registered(script[pc].p)

Positional ==
    /\ Building("Positional")
    /\ LET c == script[pc]
       IN  /\ parsers' = [parsers EXCEPT ![c.p].positional =
                            Append(@, [Bundle(c.options) EXCEPT !.Name = c.long,
                                          !.isPositional = TRUE, !.parent = c.p])]
           /\ lastArg' = [p |-> c.p, list |-> "positional", k |-> Len(parsers[c.p].positional) + 1]
    /\ Built

NewCommand ==
    /\ Building("NewCommand")
    /\ LET c == script[pc]
           sub == Len(parsers) + 1
       IN  parsers' = Append([parsers EXCEPT ![c.p].subparsers = Put(@, c.long, sub)],
                             NewParserRec(c.long, parsers[c.p].version, c.p))
    /\ UNCHANGED lastArg
    /\ Built

SetVersion ==
    /\ Building("SetVersion")
    /\ parsers' = [parsers EXCEPT ![script[pc].p].version = script[pc].val.s]
    /\ UNCHANGED lastArg
    /\ Built

\* a modifier applied to the *Argument the preceding registration returned
Modify(field, v) ==
    /\ parsers' = IF lastArg.list = "args"
                  THEN [parsers EXCEPT ![lastArg.p].args[lastArg.k][field] = v]
                  ELSE [parsers EXCEPT ![lastArg.p].positional[lastArg.k][field] = v]
    /\ UNCHANGED lastArg
    /\ Built

Required == Building("Required") /\ Modify("IsRequired", TRUE)

Default == Building("Default") /\ Modify("DefaultVal", script[pc].val)

Choices == Building("Choices") /\ Modify("ValidChoices", script[pc].val.l)

(***************************************************************************)
(* Parser.Parse.  The walk state w holds the local variables of Parse      *)
(* (result, i, positionalIndex, hasVersionFlag, hasHelpFlag), the parsers  *)
(* as the call has changed them so far, and how the call has ended, if it  *)
(* has: "run" while the loop runs, "err" after return nil, err, "ok" after *)
(* return result, nil, "exit" after os.Exit.                               *)
(***************************************************************************)
NilResult == [isnil |-> TRUE, m |-> EmptyMap]

Result(m) == [isnil |-> FALSE, m |-> m]

RECURSIVE SeedDefaults(_, _, _)
\* for _, arg := range defs { if arg.DefaultVal != nil { result[arg.Name] = arg.DefaultVal } }
SeedDefaults(result, defs, k) ==
    IF k > Len(defs) THEN result
    ELSE SeedDefaults(IF defs[k].DefaultVal # Nil
                      THEN Put(result, defs[k].Name, defs[k].DefaultVal)
                      ELSE result,
                      defs, k + 1)

WalkStart(ps, pid) ==
    [ps |-> ps,
     result |-> SeedDefaults(SeedDefaults(EmptyMap, ps[pid].args, 1), ps[pid].positional, 1),
     i |-> 0, positionalIndex |-> 0, hasVersionFlag |-> FALSE, hasHelpFlag |-> FALSE,
     kind |-> "run", err |-> "", code |-> -1, out |-> <<>>]

\* the error returned after every seen mark has been cleared again
ReturnErrUnmarking(w, msg) ==
    LET Unmarked(defs) == [k \in DOMAIN defs |-> [defs[k] EXCEPT !.isSet = FALSE]]
    IN  [w EXCEPT !.kind = "err", !.err = msg,
                  !.ps = [q \in DOMAIN w.ps |->
                             [w.ps[q] EXCEPT !.args = Unmarked(@),
                                             !.positional = Unmarked(@)]]]

ReturnErr(w, msg) == [w EXCEPT !.kind = "err", !.err = msg]

RECURSIVE FirstByName(_, _, _)
\* for _, option := range p.args { if option.Name == name { ... break } }:
\* the index of the first match from k on, 0 if none
FirstByName(defs, name, k) ==
    IF k > Len(defs) THEN 0
    ELSE IF defs[k].Name = name THEN k
    ELSE FirstByName(defs, name, k + 1)

RECURSIVE FirstByShortName(_, _, _)
\* the same with option.ShortName == string(shortOpt)
FirstByShortName(defs, c, k) ==
    IF k > Len(defs) THEN 0
    ELSE IF defs[k].ShortName = c THEN k
    ELSE FirstByShortName(defs, c, k + 1)

\* result[option.Name] = v; option.isSet = true
Store(w, pid, k, v) ==
    [w EXCEPT !.result = Put(@, w.ps[pid].args[k].Name, v),
              !.ps[pid].args[k].isSet = TRUE]

\* count, _ := result[option.Name].(int); result[option.Name] = count + 1
Increment(w, pid, k) ==
    LET cur == Lookup(w.result, w.ps[pid].args[k].Name)
        count == IF cur.t = "int" THEN cur.i ELSE 0
    IN  Store(w, pid, k, VInt(count + 1))

\* the look-ahead of a value-taking option without a value of its own
NextIsValue(args, i) == i + 1 < Len(args) /\ ~HasPrefix(args[i + 2], "-")

\* value, err := parseValue(option.ArgType, ...) for an option given as
\* `shown` (--name or -c): return the error, or store the value
StoreParsed(w, pid, k, shown, pv) ==
    IF ~pv.ok THEN ReturnErr(w, "invalid value for " \o shown \o ": " \o pv.err)
    ELSE Store(w, pid, k, pv.v)

\* the next token taken as the value with the cursor left where it is
TakeNextNoSkip(w, pid, args, k, shown) ==
    IF NextIsValue(args, w.i)
    THEN StoreParsed(w, pid, k, shown, parseValue(w.ps[pid].args[k].ArgType, args[w.i + 2]))
    ELSE ReturnErr(w, "argument " \o shown \o " requires a value")

\* the value-taking case of an option without a value of its own: take the
\* next token as the value, or fail
TakeNext(w, pid, args, k, shown) ==
    IF NextIsValue(args, w.i)
    THEN StoreParsed([w EXCEPT !.i = @ + 1], pid, k, shown,
                     parseValue(w.ps[pid].args[k].ArgType, args[w.i + 2]))
    ELSE ReturnErr(w, "argument " \o shown \o " requires a value")

\* the long option with the inline value of a boolean coerced and stored
LongOptionCoercing(w, pid, args) ==
    LET arg      == args[w.i + 1]
        parts    == SplitN2(From(arg, 2))
        name     == parts[1]
        hasValue == Len(parts) > 1
        w1       == IF name = "help"
                    THEN [w EXCEPT !.hasHelpFlag = TRUE, !.result = Put(@, "help", VBool(TRUE))]
                    ELSE IF name = "version"
                    THEN [w EXCEPT !.hasVersionFlag = TRUE, !.result = Put(@, "version", VBool(TRUE))]
                    ELSE w
        k        == FirstByName(w.ps[pid].args, name, 1)
    IN  IF k = 0 THEN ReturnErr(w1, "unknown argument: --" \o name)
        ELSE LET argType == w.ps[pid].args[k].ArgType
             IN  IF argType = ArgTypeBool /\ ~hasValue THEN Store(w1, pid, k, VBool(TRUE))
                 ELSE IF argType = ArgTypeCounter THEN Increment(w1, pid, k)
                 ELSE IF hasValue
                 THEN StoreParsed(w1, pid, k, "--" \o name, parseValue(argType, parts[2]))
                 ELSE TakeNext(w1, pid, args, k, "--" \o name)

\* strings.HasPrefix(arg, "--"): the long option
LongOption(w, pid, args) ==
    LET arg      == args[w.i + 1]
        parts    == SplitN2(From(arg, 2))
        name     == parts[1]
        hasValue == Len(parts) > 1
        w1       == IF name = "help"
                    THEN [w EXCEPT !.hasHelpFlag = TRUE, !.result = Put(@, "help", VBool(TRUE))]
                    ELSE IF name = "version"
                    THEN [w EXCEPT !.hasVersionFlag = TRUE, !.result = Put(@, "version", VBool(TRUE))]
                    ELSE w
        k        == FirstByName(w.ps[pid].args, name, 1)
    IN  IF k = 0 THEN ReturnErr(w1, "unknown argument: --" \o name)
        ELSE LET argType == w.ps[pid].args[k].ArgType
             IN  IF argType = ArgTypeBool THEN Store(w1, pid, k, VBool(TRUE))
                 ELSE IF argType = ArgTypeCounter THEN Increment(w1, pid, k)
                 ELSE IF hasValue
                 THEN StoreParsed(w1, pid, k, "--" \o name, parseValue(argType, parts[2]))
                 ELSE TakeNext(w1, pid, args, k, "--" \o name)

\* the test that ends the loop over the characters of a short token; j is
\* the loop variable as the body left it
BreakCluster(j, shortName) == j + 1 < Len(shortName)

\* the rest of the token as the value of the option at offset j: the error,
\* or the value stored and j = len(shortName)
Fused(w, pid, k, shortName, j, pv) ==
    [w |-> StoreParsed(w, pid, k, "-" \o Char(shortName, j + 1), pv),
     j |-> IF pv.ok THEN Len(shortName) ELSE j]

\* the body of the loop over shortName for the character at offset j: the
\* walk state after it and the value the body leaves in j
ShortBody(w, pid, args, shortName, j) ==
    LET shortOpt == Char(shortName, j + 1)
        k        == FirstByShortName(w.ps[pid].args, shortOpt, 1)
    IN  IF k = 0 THEN [w |-> ReturnErr(w, "unknown argument: -" \o shortOpt), j |-> j]
        ELSE LET argType == w.ps[pid].args[k].ArgType
             IN  IF argType = ArgTypeBool THEN [w |-> Store(w, pid, k, VBool(TRUE)), j |-> j]
                 ELSE IF argType = ArgTypeCounter THEN [w |-> Increment(w, pid, k), j |-> j]
                 ELSE IF j < Len(shortName) - 1
                 THEN Fused(w, pid, k, shortName, j, parseValue(argType, From(shortName, j + 1)))
                 ELSE [w |-> TakeNext(w, pid, args, k, "-" \o shortOpt), j |-> j]

RECURSIVE ShortLoop(_, _, _, _, _)

\* after the body, which left b.w and b.j: return, break, or go on with the
\* next character
AfterBody(b, pid, args, shortName, j) ==
    IF b.w.kind # "run" THEN b.w
    ELSE IF BreakCluster(b.j, shortName) THEN b.w
    ELSE ShortLoop(b.w, pid, args, shortName, j + 1)

\* for j, shortOpt := range shortName: range steps to the next character
\* whatever the body assigned to j
ShortLoop(w, pid, args, shortName, j) ==
    IF j >= Len(shortName) THEN w
    ELSE AfterBody(ShortBody(w, pid, args, shortName, j), pid, args, shortName, j)

\* -h and -V set their flag and are done with, no alias looked up
ShortOptionHelpFirst(w, pid, args) ==
    LET shortName == From(args[w.i + 1], 1)
    IN  IF shortName = "h"
        THEN [w EXCEPT !.hasHelpFlag = TRUE, !.result = Put(@, "help", VBool(TRUE))]
        ELSE IF shortName = "V"
        THEN [w EXCEPT !.hasVersionFlag = TRUE, !.result = Put(@, "version", VBool(TRUE))]
        ELSE ShortLoop(w, pid, args, shortName, 0)

\* a token with one leading dash: the short option
ShortOption(w, pid, args) ==
    LET shortName == From(args[w.i + 1], 1)
        w1        == IF shortName = "h"
                     THEN [w EXCEPT !.hasHelpFlag = TRUE, !.result = Put(@, "help", VBool(TRUE))]
                     ELSE IF shortName = "V"
                     THEN [w EXCEPT !.hasVersionFlag = TRUE, !.result = Put(@, "version", VBool(TRUE))]
                     ELSE w
    IN  ShortLoop(w1, pid, args, shortName, 0)

\* value, err := parseValue(pos.ArgType, arg) for the n-th positional
\* definition: return the error, or store the value and move on
StorePositional(w, pid, n, pv) ==
    IF ~pv.ok
    THEN ReturnErr(w, "invalid value for " \o w.ps[pid].positional[n].Name \o ": " \o pv.err)
    ELSE [w EXCEPT !.result = Put(@, w.ps[pid].positional[n].Name, pv.v),
                   !.ps[pid].positional[n].isSet = TRUE,
                   !.positionalIndex = @ + 1]

\* a token without a leading dash
PositionalArg(w, pid, args) ==
    IF w.positionalIndex < Len(w.ps[pid].positional)
    THEN StorePositional(w, pid, w.positionalIndex + 1,
                         parseValue(w.ps[pid].positional[w.positionalIndex + 1].ArgType,
                                    args[w.i + 1]))
    ELSE ReturnErr(w, "unrecognized positional argument: " \o args[w.i + 1])

\* PrintHelp writes the usage of parser p to standard output; its text is
\* not modelled beyond naming the parser
PrintHelp(ps, pid) == [stream |-> "stdout", text |-> "Usage: " \o ps[pid].name]

RECURSIVE FirstMissing(_, _)
\* for _, arg := range defs { if arg.IsRequired && !arg.isSet { return ... } }:
\* the index of the first required definition that is not set, 0 if none
FirstMissing(defs, k) ==
    IF k > Len(defs) THEN 0
    ELSE IF defs[k].IsRequired /\ ~defs[k].isSet THEN k
    ELSE FirstMissing(defs, k + 1)

MissingMessage(arg) ==
    IF arg.isPositional THEN "required argument missing: " \o arg.Name
    ELSE IF arg.ShortName # ""
    THEN "required argument missing: --" \o arg.Name \o "/-" \o arg.ShortName
    ELSE "required argument missing: --" \o arg.Name

\* the required check made before help and version are looked at
AfterLoopRequiredFirst(w, pid) ==
    LET p == w.ps[pid]
        a == FirstMissing(p.args, 1)
        b == FirstMissing(p.positional, 1)
    IN  IF a # 0 THEN ReturnErr(w, MissingMessage(p.args[a]))
        ELSE IF b # 0
        THEN ReturnErr(w, "required positional argument missing: " \o p.positional[b].Name)
        ELSE IF w.hasHelpFlag
        THEN [w EXCEPT !.kind = "exit", !.code = 0, !.out = Append(@, PrintHelp(w.ps, pid))]
        ELSE IF w.hasVersionFlag
        THEN [w EXCEPT !.kind = "exit", !.code = 0,
                       !.out = Append(@, [stream |-> "stdout", text |-> p.name \o " " \o p.version])]
        ELSE [w EXCEPT !.kind = "ok"]

\* what follows the token loop: help, version, the required check
AfterLoop(w, pid) ==
    LET p == w.ps[pid]
        a == FirstMissing(p.args, 1)
        b == FirstMissing(p.positional, 1)
    IN  IF w.hasHelpFlag
        THEN [w EXCEPT !.kind = "exit", !.code = 0, !.out = Append(@, PrintHelp(w.ps, pid))]
        ELSE IF w.hasVersionFlag
        THEN [w EXCEPT !.kind = "exit", !.code = 0,
                       !.out = Append(@, [stream |-> "stdout", text |-> p.name \o " " \o p.version])]
        ELSE IF a # 0 THEN ReturnErr(w, MissingMessage(p.args[a]))
        ELSE IF b # 0
        THEN ReturnErr(w, "required positional argument missing: " \o p.positional[b].Name)
        ELSE [w EXCEPT !.kind = "ok"]

\* for k, v := range subResult { result[k] = v }
Merge(result, subResult) ==
    [x \in (DOMAIN result) \cup (DOMAIN subResult) |->
        IF x \in DOMAIN subResult THEN subResult[x] ELSE result[x]]

\* args instead of args[1:]: the subcommand name handed on with the rest
SubArgsWithName(args) == args

\* the tokens Parse hands to the subcommand's parser: args[1:]
SubArgs(args) == Tail(args)

\* the test without i == 0: a subparser's name at any index
IsSubcommandAnywhere(p, i, arg) ==
    /\ Cardinality(DOMAIN p.subparsers) > 0
    /\ arg \in DOMAIN p.subparsers

\* len(p.subparsers) > 0 && i == 0, and the token names a subparser
IsSubcommand(p, i, arg) ==
    /\ Cardinality(DOMAIN p.subparsers) > 0
    /\ i = 0
    /\ arg \in DOMAIN p.subparsers

RECURSIVE ParseCall(_, _, _)
RECURSIVE Loop(_, _, _)

\* the subcommand branch falling through to the parent's own checks after
\* the child has succeeded, instead of returning
DelegateThenValidate(w, pid, args) ==
    LET arg == args[w.i + 1]
        sub == ParseCall([w.ps EXCEPT ![pid].subparser = arg], w.ps[pid].subparsers[arg],
                         SubArgs(args))
    IN  IF sub.kind = "ok"
        THEN AfterLoop([w EXCEPT !.ps = sub.ps, !.out = @ \o sub.out,
                                 !.result = Merge(Put(w.result, "subcommand", VString(arg)),
                                                  sub.result.m)], pid)
        ELSE [w EXCEPT !.ps = sub.ps, !.kind = sub.kind, !.err = sub.err, !.code = sub.code,
                       !.out = @ \o sub.out]

\* the subcommand branch: record the name, parse the rest with the child,
\* return its error, or the result with "subcommand" and the child's entries
Delegate(w, pid, args) ==
    LET arg == args[w.i + 1]
        sub == ParseCall([w.ps EXCEPT ![pid].subparser = arg], w.ps[pid].subparsers[arg],
                         SubArgs(args))
    IN  IF sub.kind = "ok"
        THEN [w EXCEPT !.ps = sub.ps, !.kind = "ok", !.out = @ \o sub.out,
                       !.result = Merge(Put(w.result, "subcommand", VString(arg)), sub.result.m)]
        ELSE [w EXCEPT !.ps = sub.ps, !.kind = sub.kind, !.err = sub.err, !.code = sub.code,
                       !.out = @ \o sub.out]

\* i++, unless the iteration returned
Advance(w) == IF w.kind = "run" THEN [w EXCEPT !.i = @ + 1] ELSE w

\* one iteration of for i := 0; i < len(args); i++
Step(w, pid, args) ==
    Advance(IF IsSubcommand(w.ps[pid], w.i, args[w.i + 1]) THEN Delegate(w, pid, args)
            ELSE IF HasPrefix(args[w.i + 1], "-")
            THEN (IF HasPrefix(args[w.i + 1], "--") THEN LongOption(w, pid, args)
                  ELSE ShortOption(w, pid, args))
            ELSE PositionalArg(w, pid, args))

Loop(w, pid, args) ==
    IF w.kind # "run" \/ w.i >= Len(args) THEN w ELSE Loop(Step(w, pid, args), pid, args)

\* what the call hands back when the walk has ended as e
Outcome(e) ==
    [kind |-> e.kind, ps |-> e.ps,
     result |-> IF e.kind = "ok" THEN Result(e.result) ELSE NilResult,
     err |-> e.err, code |-> e.code, out |-> e.out]

\* the loop has ended as w: with a return inside it, or at its end
LoopEnd(w, pid) == Outcome(IF w.kind = "run" THEN AfterLoop(w, pid) ELSE w)

\* p.Parse(args) for a non-nil args, on the parsers ps: how the call ends
\* (kind), the map and error it returns, the exit status and output if it
\* ends the process, and the parsers as it leaves them
ParseCall(ps, pid, args) == LoopEnd(Loop(WalkStart(ps, pid), pid, args), pid)

(***************************************************************************)
(* fmt.Sprintf("%v", val) for the values a result holds.                   *)
(***************************************************************************)
RECURSIVE Zeros(_)
Zeros(n) == IF n <= 0 THEN "" ELSE "0" \o Zeros(n - 1)

RECURSIVE TrimZeros(_)
\* s without its trailing zeros
TrimZeros(s) ==
    IF s # "" /\ Char(s, Len(s)) = "0" THEN TrimZeros(SubSeq(s, 1, Len(s) - 1)) ELSE s

\* %g with the shortest precision: digits d with the decimal point after
\* the first dp of them; %e when dp - 1 < -4 or dp - 1 >= 6
FormatFloat(f) ==
    IF f.special # "" THEN f.special
    ELSE IF f.m = 0 THEN "0"
    ELSE LET a    == IF f.m < 0 THEN 0 - f.m ELSE f.m
             all  == NatStr(a)
             d    == TrimZeros(all)
             dp   == Len(all) - f.e
             x    == dp - 1
             sign == IF f.m < 0 THEN "-" ELSE ""
             ax   == IF x < 0 THEN 0 - x ELSE x
         IN  IF x < -4 \/ x >= 6
             THEN sign \o Char(d, 1) \o (IF Len(d) > 1 THEN "." \o Tail(d) ELSE "")
                       \o "e" \o (IF x < 0 THEN "-" ELSE "+") \o Pad(ax, 2)
             ELSE IF dp <= 0 THEN sign \o "0." \o Zeros(0 - dp) \o d
             ELSE IF Len(d) <= dp THEN sign \o d \o Zeros(dp - Len(d))
             ELSE sign \o SubSeq(d, 1, dp) \o "." \o From(d, dp)

RECURSIVE Join(_, _)
Join(l, sep) ==
    IF Len(l) = 0 THEN "" ELSE IF Len(l) = 1 THEN l[1] ELSE l[1] \o sep \o Join(Tail(l), sep)

\* Time.String(): 2006-01-02 15:04:05.999999999 -0700 MST, for a time in UTC
\* or in the unnamed fixed zone Parse gives an offset
FormatTime(v) ==
    LET off  == IF v.off = "UTC" THEN 0 ELSE Signed(v.off, DigitsVal(Unsigned(v.off)))
        aoff == IF off < 0 THEN 0 - off ELSE off
        zone == (IF off < 0 THEN "-" ELSE "+") \o Pad(aoff \div 3600, 2) \o Pad((aoff % 3600) \div 60, 2)
        frac == IF v.ns = 0 THEN ""
                ELSE "." \o TrimZeros(Zeros(9 - Len(NatStr(v.ns))) \o NatStr(v.ns))
    IN  Pad(v.Y, 4) \o "-" \o Pad(v.M, 2) \o "-" \o Pad(v.D, 2) \o " "
          \o Pad(v.h, 2) \o ":" \o Pad(v.mi, 2) \o ":" \o Pad(v.s, 2) \o frac
          \o " " \o zone \o " " \o (IF v.off = "UTC" THEN "UTC" ELSE zone)

Sprintv(val) ==
    CASE val.t = "string" -> val.s
      [] val.t = "int" -> IntStr(val.i)
      [] val.t = "bool" -> IF val.b THEN "true" ELSE "false"
      [] val.t = "float64" -> FormatFloat(val.f)
      [] val.t = "[]string" -> "[" \o Join(val.l, " ") \o "]"
      [] val.t = "time.Time" -> FormatTime(val)
      [] OTHER -> "<nil>"

(***************************************************************************)
(* The calls of a running program: Parse and ParseOrExit on the parser     *)
(* NewParser returned, as every program of the repository does; Get and    *)
(* the typed getters on any parser of the program.                         *)
(***************************************************************************)
Running == pc > Len(script) /\ exited = -1 /\ ncalls < MaxCalls

\* the token sequences a program hands to Parse explicitly
Argv == UNION { [1..n -> Programs[prog].vocab] : n \in 0..MaxTokens }

NilArgs == [nil |-> TRUE, a |-> <<>>]

Explicit(a) == [nil |-> FALSE, a |-> a]

ParseInputs == {NilArgs} \cup { Explicit(a) : a \in Argv }

\* if args == nil { args = os.Args[1:] }
ParseEntry(ps, pid, in) == ParseCall(ps, pid, IF in.nil THEN osArgs ELSE in.a)

Ran ==
    /\ ncalls' = ncalls + 1
    /\ UNCHANGED <<prog, pc, lastArg, osArgs>>

Returned(op, pid, in, name, r, value) ==
    /\ parsers' = r.ps
    /\ exited' = r.code
    /\ last' = [op |-> op, p |-> pid, nilArgs |-> in.nil,
                args |-> IF in.nil THEN osArgs ELSE in.a, name |-> name,
                kind |-> r.kind, result |-> r.result, err |-> r.err, out |-> r.out,
                value |-> value]
    /\ Ran

\* the parser a program parses with: the one NewParser returned
Root == 1

Parse ==
    /\ Running
    /\ \E in \in ParseInputs :
          Returned("Parse", Root, in, "", ParseEntry(parsers, Root, in), Nil)

\* the error printed, without the help and without os.Exit(1)
ExitOnErrorReturning(r, pid) ==
    IF r.kind = "err"
    THEN [r EXCEPT !.out = Append(@, [stream |-> "stderr", text |-> "Error: " \o r.err])]
    ELSE r

\* if err != nil { fmt.Fprintf(os.Stderr, "Error: %v\n", err); p.PrintHelp(); os.Exit(1) }
ExitOnError(r, pid) ==
    IF r.kind = "err"
    THEN [r EXCEPT !.code = 1,
                   !.out = @ \o << [stream |-> "stderr", text |-> "Error: " \o r.err],
                                   PrintHelp(r.ps, pid) >>]
    ELSE r

ParseOrExit ==
    /\ Running
    /\ Returned("ParseOrExit", Root, NilArgs, "",
                ExitOnError(ParseEntry(parsers, Root, NilArgs), Root), Nil)

\* args, _ := p.Parse(nil); return args[name]
GetValue(r, name) == Lookup(r.result.m, name)

\* GetString without the test for nil
GetStringOfAny(val) == IF val.t = "string" THEN val.s ELSE Sprintv(val)

GetStringOf(val) ==
    IF val = Nil THEN ""
    ELSE IF val.t = "string" THEN val.s
    ELSE Sprintv(val)

GetIntOf(val) == IF val # Nil /\ val.t = "int" THEN val.i ELSE 0

GetFloatOf(val) == IF val # Nil /\ val.t = "float64" THEN val ELSE VFloat(0, 0)

GetBoolOf(val) == IF val # Nil /\ val.t = "bool" THEN val.b ELSE FALSE

GetListOf(val) == IF val # Nil /\ val.t = "[]string" THEN val.l ELSE <<>>

GetDateTimeOf(val) == IF val # Nil /\ val.t = "time.Time" THEN val ELSE ZeroTime

\* what each getter makes of the value Get returned
Converted(op, val) ==
    CASE op = "Get" -> val
      [] op = "GetString" -> VString(GetStringOf(val))
      [] op = "GetInt" -> VInt(GetIntOf(val))
      [] op = "GetFloat" -> GetFloatOf(val)
      [] op = "GetBool" -> VBool(GetBoolOf(val))
      [] op = "GetList" -> VList(GetListOf(val))
      [] op = "GetDateTime" -> GetDateTimeOf(val)

\* a getter: the Parse(nil) inside Get, which returned r, then the
\* conversion of what Get returned, unless that Parse ended the process
Getter(op, pid, name, r) ==
    Returned(op, pid, NilArgs, name, r,
             IF r.kind = "exit" THEN Nil ELSE Converted(op, GetValue(r, name)))

\* a getter called on any parser for any name the program retrieves
Called(op) ==
    /\ Running
    /\ \E pid \in DOMAIN parsers, name \in Programs[prog].names :
          Getter(op, pid, name, ParseEntry(parsers, pid, NilArgs))

Get == Called("Get")

GetString == Called("GetString")

GetInt == Called("GetInt")

GetFloat == Called("GetFloat")

GetBool == Called("GetBool")

GetList == Called("GetList")

GetDateTime == Called("GetDateTime")

Next ==
    \/ NewCommand \/ SetVersion \/ AddHelp \/ AddVersion
    \/ Flag \/ String \/ ParserInt \/ Float \/ Bool \/ List \/ Counter \/ DateTime
    \/ Positional \/ Required \/ Default \/ Choices
    \/ Parse \/ ParseOrExit
    \/ Get \/ GetString \/ GetInt \/ GetFloat \/ GetBool \/ GetList \/ GetDateTime

Spec == Init /\ [][Next]_vars

(***************************************************************************)
(* What the last call was, for the properties below.                       *)
(***************************************************************************)
\* the last call was a Parse (or the Parse inside ParseOrExit) that returned
Parsed == last.op \in {"Parse", "ParseOrExit"} /\ last.kind \in {"ok", "err"}

\* ... and it was the first call made on the newly built parsers
FirstParsed == Parsed /\ ncalls = 1

\* the parser the last call was made on
P == parsers[last.p]

\* the tokens the last call parsed
Tokens == last.args

\* the last call handed its tokens to a subcommand
Delegated == Len(Tokens) > 0 /\ Tokens[1] \in DOMAIN P.subparsers

Range(f) == { f[x] : x \in DOMAIN f }

(***************************************************************************)
(* The command-line grammar as the specification reads it, on the tokens   *)
(* of the last call and the definitions of its parser: which tokens are    *)
(* options, which are values, which definitions the tokens supply.         *)
(***************************************************************************)
\* the definition a short alias names, 0 if none
Alias(c) == FirstByShortName(P.args, c, 1)

TakesValue(k) == P.args[k].ArgType \notin {ArgTypeBool, ArgTypeCounter}

\* a token with one leading dash and at least one character after it
IsShortToken(tok) == HasPrefix(tok, "-") /\ ~HasPrefix(tok, "--") /\ Len(tok) >= 2

\* the first n characters of a short token's name are boolean or counter aliases
FlagsUpTo(name, n) ==
    \A j \in 1..n : Alias(Char(name, j)) # 0 /\ ~TakesValue(Alias(Char(name, j)))

\* token t is a cluster: every character a registered alias, every one but
\* possibly the last a boolean or counter alias
IsCluster(t) ==
    LET name == From(Tokens[t], 1)
    IN  /\ IsShortToken(Tokens[t])
        /\ Len(name) >= 2
        /\ FlagsUpTo(name, Len(name) - 1)
        /\ Alias(Char(name, Len(name))) # 0

\* the number of characters of name that are c
CountChar(name, c) == Cardinality({ j \in 1..Len(name) : Char(name, j) = c })

\* a value-taking short alias followed by further characters
IsFusedToken(tok) ==
    /\ IsShortToken(tok)
    /\ Len(tok) >= 3
    /\ Alias(Char(tok, 2)) # 0
    /\ TakesValue(Alias(Char(tok, 2)))

\* a token that ends with a value-taking option that has no value yet
WantsValue(tok) ==
    \/ /\ HasPrefix(tok, "--")
       /\ FirstByName(P.args, From(tok, 2), 1) # 0
       /\ TakesValue(FirstByName(P.args, From(tok, 2), 1))
    \/ /\ IsShortToken(tok)
       /\ FlagsUpTo(From(tok, 1), Len(tok) - 2)
       /\ Alias(Char(tok, Len(tok))) # 0
       /\ TakesValue(Alias(Char(tok, Len(tok))))

\* token t is the value of the option before it
IsValueToken(t) == t > 1 /\ ~HasPrefix(Tokens[t], "-") /\ WantsValue(Tokens[t - 1])

PositionalTokens ==
    { t \in 1..Len(Tokens) : ~HasPrefix(Tokens[t], "-") /\ ~IsValueToken(t) }

\* the tokens supply the k-th optional definition: by its long name or by
\* its alias in a cluster, with a value if it takes one
OptionSupplied(k) ==
    \E t \in 1..Len(Tokens) :
        LET tok  == Tokens[t]
            name == From(tok, 1)
        IN  \/ /\ HasPrefix(tok, "--")
               /\ SplitN2(From(tok, 2))[1] = P.args[k].Name
               /\ FirstByName(P.args, P.args[k].Name, 1) = k
               /\ (~TakesValue(k) \/ Len(SplitN2(From(tok, 2))) > 1 \/ NextIsValue(Tokens, t - 1))
            \/ /\ IsShortToken(tok)
               /\ \E j \in 1..Len(name) :
                     /\ Alias(Char(name, j)) = k
                     /\ FlagsUpTo(name, j - 1)
                     /\ (~TakesValue(k) \/ j < Len(name) \/ NextIsValue(Tokens, t - 1))

\* the tokens supply the n-th positional definition
PositionalSupplied(n) == Cardinality(PositionalTokens) >= n

\* the construction call that registered the definition `name` on parser p, 0 if none
RegisteredAt(p, name) ==
    LET S == { c \in 1..Len(script) :
                 /\ script[c].p = p
                 /\ script[c].long = name
                 /\ script[c].op \in {"Flag", "String", "Int", "Float", "Bool", "List",
                                      "Counter", "DateTime", "Positional"} }
    IN  IF S = {} THEN 0 ELSE CHOOSE c \in S : \A x \in S : c <= x

\* the default the program declared in call c: by a Default() among the
\* modifiers that follow the registration, else in the configuration bundle
DeclaredDefault(c) ==
    LET D == { m \in (c + 1)..Len(script) :
                 /\ script[m].op = "Default"
                 /\ \A x \in (c + 1)..m : script[x].op \in {"Required", "Default", "Choices"} }
    IN  IF D # {} THEN script[CHOOSE m \in D : \A x \in D : x <= m].val
        ELSE IF script[c].options.nil THEN Nil
        ELSE script[c].options.a.DefaultVal

\* the declared default of the k-th optional definition as a number, 0 if none
DeclaredBase(k) ==
    LET c == RegisteredAt(last.p, P.args[k].Name)
    IN  IF c # 0 /\ DeclaredDefault(c) # Nil THEN DeclaredDefault(c).i ELSE 0

\* the occurrences of the k-th optional definition in one token: as --name,
\* or as its alias among the flags of a cluster
OccurrencesIn(tok, k) ==
    IF HasPrefix(tok, "--")
    THEN (IF SplitN2(From(tok, 2))[1] = P.args[k].Name THEN 1 ELSE 0)
    ELSE IF IsShortToken(tok)
    THEN Cardinality({ j \in 1..(Len(tok) - 1) :
                          Alias(Char(tok, j + 1)) = k /\ FlagsUpTo(From(tok, 1), j - 1) })
    ELSE 0

RECURSIVE Occurrences(_, _)
Occurrences(k, t) ==
    IF t > Len(Tokens) THEN 0 ELSE OccurrencesIn(Tokens[t], k) + Occurrences(k, t + 1)

\* the tokens that are exactly --name or -c
LiteralOccurrences(k) ==
    Cardinality({ t \in 1..Len(Tokens) :
                    \/ Tokens[t] = "--" \o P.args[k].Name
                    \/ P.args[k].ShortName # "" /\ Tokens[t] = "-" \o P.args[k].ShortName })

(***************************************************************************)
(* C1 .. C6: the option grammar.                                           *)
(***************************************************************************)
\* C1: a value supplied for a definition with an allowed-choices set that is
\* not a member of the set makes Parse fail; so no successful first Parse
\* leaves a text definition set by its tokens holding a non-member
C1_InvalidChoiceRejected ==
    (FirstParsed /\ last.kind = "ok" /\ ~Delegated) =>
        \A k \in 1..Len(P.args) :
            LET d == P.args[k]
            IN  (d.ValidChoices # <<>> /\ d.isSet /\ d.ArgType = ArgTypeString) =>
                    Lookup(last.result.m, d.Name).s \in Range(d.ValidChoices)

\* C2: after a successful Parse, every boolean alias of every cluster token
\* is true in the result, every counter alias has been incremented once
\* per occurrence in the cluster, and a value-taking alias that ends the
\* cluster holds the next token when that token does not start with a dash
C2_ClusterApplied ==
    (Parsed /\ last.kind = "ok" /\ ~Delegated) =>
        \A t \in 1..Len(Tokens) :
            IsCluster(t) =>
                LET name == From(Tokens[t], 1)
                    end  == Alias(Char(name, Len(name)))
                IN  /\ \A j \in 1..Len(name) :
                          LET d == P.args[Alias(Char(name, j))]
                              v == Lookup(last.result.m, d.Name)
                          IN  /\ d.ArgType = ArgTypeBool => v = VBool(TRUE)
                              /\ d.ArgType = ArgTypeCounter =>
                                    /\ v.t = "int"
                                    /\ v.i >= DeclaredBase(Alias(Char(name, j)))
                                                 + CountChar(name, Char(name, j))
                    /\ (TakesValue(end) /\ NextIsValue(Tokens, t - 1) /\ t + 1 = Len(Tokens)) =>
                          LET pv == parseValue(P.args[end].ArgType, Tokens[t + 1])
                          IN  pv.ok /\ Lookup(last.result.m, P.args[end].Name) = pv.v

\* C3: a Parse of one token that is a value-taking short alias followed by
\* further characters stores those characters, coerced, as its value: it
\* fails only for a missing required definition, and when it succeeds the
\* result holds the coerced characters under the alias's definition
C3_FusedValueStored ==
    (Parsed /\ Len(Tokens) = 1 /\ IsFusedToken(Tokens[1])) =>
        LET d  == P.args[Alias(Char(Tokens[1], 2))]
            pv == parseValue(d.ArgType, From(Tokens[1], 2))
        IN  pv.ok =>
                /\ last.kind = "err" => HasPrefix(last.err, "required ")
                /\ last.kind = "ok" => Lookup(last.result.m, d.Name) = pv.v

\* C4: on the first Parse of newly built parsers whose walk ends without an
\* error and without delegation, Parse returns a missing-required error
\* exactly when the tokens leave some required definition unsupplied
C4_RequiredCheck ==
    (FirstParsed /\ ~Delegated /\ (last.kind = "ok" \/ HasPrefix(last.err, "required "))) =>
        (last.kind = "err" <=>
            \/ \E k \in 1..Len(P.args) : P.args[k].IsRequired /\ ~OptionSupplied(k)
            \/ \E n \in 1..Len(P.positional) : P.positional[n].IsRequired /\ ~PositionalSupplied(n))

\* C5: a successful Parse returns, for every definition the program
\* declared a default for and the tokens do not supply, that default
C5_DefaultsReturned ==
    (Parsed /\ last.kind = "ok" /\ ~Delegated) =>
        /\ \A k \in 1..Len(P.args) :
              LET c == RegisteredAt(last.p, P.args[k].Name)
              IN  (c # 0 /\ ~OptionSupplied(k)) =>
                      (DeclaredDefault(c) # Nil =>
                          Lookup(last.result.m, P.args[k].Name) = DeclaredDefault(c))
        /\ \A n \in 1..Len(P.positional) :
              LET c == RegisteredAt(last.p, P.positional[n].Name)
              IN  (c # 0 /\ ~PositionalSupplied(n)) =>
                      (DeclaredDefault(c) # Nil =>
                          Lookup(last.result.m, P.positional[n].Name) = DeclaredDefault(c))

\* C6: after a successful Parse a counter holds its declared default (0 if
\* none) plus the number of its occurrences in the tokens, whether only
\* the tokens --name and -c count or its occurrences in clusters do too
C6_CounterCounts ==
    (Parsed /\ last.kind = "ok" /\ ~Delegated) =>
        \A k \in 1..Len(P.args) :
            LET v == Lookup(last.result.m, P.args[k].Name)
            IN  P.args[k].ArgType = ArgTypeCounter =>
                    \/ v = VInt(DeclaredBase(k) + LiteralOccurrences(k))
                    \/ v = VInt(DeclaredBase(k) + Occurrences(k, 1))

(***************************************************************************)
(* C7: subcommand delegation.  A step is a Parse call when it makes a call *)
(* whose record is a Parse; the child's own parse is what ParseCall gives  *)
(* for the child parser on the tokens after the subcommand name.           *)
(***************************************************************************)
\* the step is a Parse call whose first token names a subcommand of its parser
DelegatingStep ==
    /\ ncalls' = ncalls + 1
    /\ last'.op \in {"Parse", "ParseOrExit"}
    /\ Len(last'.args) > 0
    /\ last'.args[1] \in DOMAIN parsers[last'.p].subparsers

\* the child's parse of the tokens after the subcommand name
ChildParse ==
    ParseCall(parsers, parsers[last'.p].subparsers[last'.args[1]], Tail(last'.args))

\* what C7 says of a delegating call apart from the "subcommand" entry: it
\* ends as the child's parse ends; every other entry of the child's result
\* is in the result; the parent's definitions are untouched; a child error
\* is the call's error, with no result
DelegatesToChild ==
    /\ last'.kind = ChildParse.kind
    /\ last'.kind = "ok" =>
          /\ ~last'.result.isnil
          /\ \A x \in DOMAIN ChildParse.result.m :
                x # "subcommand" => Lookup(last'.result.m, x) = ChildParse.result.m[x]
    /\ parsers'[last'.p].args = parsers[last'.p].args
    /\ parsers'[last'.p].positional = parsers[last'.p].positional
    /\ last'.kind = "err" => (last'.err = ChildParse.err /\ last'.result.isnil)

TypedGot ==
    /\ last.op \in {"GetString", "GetInt", "GetFloat", "GetBool", "GetList", "GetDateTime"}
    /\ last.kind # "exit"

\* what the Parse inside the getter holds under the name asked for
Stored == Lookup(last.result.m, last.name)

\* the zero value of each typed getter
ZeroOf(op) ==
    CASE op = "GetString" -> VString("")
      [] op = "GetInt" -> VInt(0)
      [] op = "GetFloat" -> VFloat(0, 0)
      [] op = "GetBool" -> VBool(FALSE)
      [] op = "GetList" -> VList(<<>>)
      [] op = "GetDateTime" -> ZeroTime

\* the type each typed getter asks for
TypeOf(op) ==
    CASE op = "GetString" -> "string"
      [] op = "GetInt" -> "int"
      [] op = "GetFloat" -> "float64"
      [] op = "GetBool" -> "bool"
      [] op = "GetList" -> "[]string"
      [] op = "GetDateTime" -> "time.Time"

C9_GetReflectsParse ==
    [][(/\ last.op = "Parse"
        /\ ~last.nilArgs
        /\ last.kind = "ok"
        /\ ncalls' = ncalls + 1
        /\ last'.op \notin {"Parse", "ParseOrExit"}
        /\ last'.p = last.p) =>
          last'.value = Converted(last'.op, Lookup(last.result.m, last'.name))]_vars

\* C10: after the root parser parsed process arguments whose first token
\* selects a subcommand, a getter on that subcommand's parser returns, for
\* a name the subcommand defines, the value the parse gave it, and the
\* root's GetString("subcommand") returns the subcommand name
C10_SubcommandGetters ==
    [][(/\ last.op \in {"Parse", "ParseOrExit"}
        /\ last.nilArgs
        /\ last.kind = "ok"
        /\ Len(last.args) > 0
        /\ last.args[1] \in DOMAIN parsers[last.p].subparsers
        /\ ncalls' = ncalls + 1
        /\ last'.op \notin {"Parse", "ParseOrExit"}) =>
          /\ (/\ last'.p = parsers[last.p].subparsers[last.args[1]]
              /\ FirstByName(parsers[last'.p].args, last'.name, 1) # 0) =>
                last'.value = Converted(last'.op, Lookup(last.result.m, last'.name))
          /\ (last'.p = last.p /\ last'.op = "GetString" /\ last'.name = "subcommand") =>
                last'.value = VString(last.args[1])]_vars

(***************************************************************************)
(* C11: help and the rest of the tokens.                                   *)
(***************************************************************************)
\* the last call was a Parse, or the Parse inside ParseOrExit, however it ended
Walked == last.op \in {"Parse", "ParseOrExit"}

HelpTokens == {"-h", "--help"}

HasHelpToken == \E t \in 1..Len(Tokens) : Tokens[t] \in HelpTokens

\* the parser defines help under both of its names, as AddHelp does
DefinesHelp(p) ==
    /\ FirstByName(p.args, "help", 1) # 0
    /\ FirstByShortName(p.args, "h", 1) # 0

\* a missing-required error, as the check after the token loop words it
IsMissingRequired(err) == HasPrefix(err, "required ")

\* C11 as stated: every Parse of tokens that contain -h or --help, at any
\* position, prints the help and ends the process with status 0; it never
\* returns an error
C11_HelpAnywhereExits ==
    (Walked /\ HasHelpToken) => (last.kind = "exit" /\ exited = 0)

\* C11, amended: a Parse of tokens that contain -h or --help never returns
\* a result and never a missing-required error: it either prints the help
\* of a parser and ends the process with status 0, the required check not
\* made, or it returns the error of a token (an option with no value, an
\* unknown option, a help token on a parser that defines no help); on a
\* parser that defines help, tokens that are all help tokens end in the exit
C11_HelpExitsUnlessTokenError ==
    (Walked /\ HasHelpToken) =>
        /\ last.kind \in {"exit", "err"}
        /\ last.kind = "exit" =>
              /\ exited = 0
              /\ last.result.isnil
              /\ \E q \in DOMAIN parsers : last.out[Len(last.out)] = PrintHelp(parsers, q)
        /\ last.kind = "err" => (last.err # "" /\ ~IsMissingRequired(last.err))
        /\ (DefinesHelp(P) /\ \A t \in 1..Len(Tokens) : Tokens[t] \in HelpTokens) =>
              last.kind = "exit"

\* a help token has ended the process with status 0 although a required
\* definition of the parser was never supplied
C11_Witness ==
    /\ Walked /\ HasHelpToken
    /\ last.kind = "exit" /\ exited = 0
    /\ FirstMissing(P.args, 1) # 0

(***************************************************************************)
(* C12: the seen marks across the Parse calls made on one parser.          *)
(***************************************************************************)
\* every short token of the last call is a single alias
WholeTokens == \A t \in 1..Len(Tokens) : IsShortToken(Tokens[t]) => Len(Tokens[t]) = 2

\* the tokens of the last call leave a required definition unsupplied
RequiredOmitted ==
    \/ \E k \in 1..Len(P.args) : P.args[k].IsRequired /\ ~OptionSupplied(k)
    \/ \E n \in 1..Len(P.positional) : P.positional[n].IsRequired /\ ~PositionalSupplied(n)

\* C12: whatever calls were made before on the parser, a Parse whose walk
\* ends without a token error and whose tokens omit a required definition
\* returns a missing-required error, also when an earlier call supplied it
C12_SeenMarksPerParse ==
    (Parsed /\ ~Delegated /\ WholeTokens /\ RequiredOmitted) =>
        (last.kind = "err" /\ last.err # "")

(***************************************************************************)
(* The errors of the grammar: for each token of the last call, the error   *)
(* the specification attaches to it, "" if the token is in order.          *)
(***************************************************************************)
\* the coercion error of a value given to the option or positional `shown`
InvalidValue(shown, argType, value) ==
    IF parseValue(argType, value).ok THEN ""
    ELSE "invalid value for " \o shown \o ": " \o parseValue(argType, value).err

\* a value-taking option `shown` that ends token t with no value of its own
NextValueError(t, shown, argType) ==
    IF NextIsValue(Tokens, t - 1) THEN InvalidValue(shown, argType, Tokens[t + 1])
    ELSE "argument " \o shown \o " requires a value"

LongError(t) ==
    LET parts == SplitN2(From(Tokens[t], 2))
        k     == FirstByName(P.args, parts[1], 1)
    IN  IF k = 0 THEN "unknown argument: --" \o parts[1]
        ELSE IF ~TakesValue(k) THEN ""
        ELSE IF Len(parts) > 1
        THEN InvalidValue("--" \o parts[1], P.args[k].ArgType, parts[2])
        ELSE NextValueError(t, "--" \o parts[1], P.args[k].ArgType)

\* the first character of a short token's name that is no boolean or
\* counter alias, 0 if there is none
FirstNonFlag(name) ==
    LET S == { j \in 1..Len(name) : ~FlagsUpTo(name, j) }
    IN  IF S = {} THEN 0 ELSE CHOOSE j \in S : \A x \in S : j <= x

ShortError(t) ==
    LET name == From(Tokens[t], 1)
        j    == FirstNonFlag(name)
        c    == Char(name, j)
    IN  IF j = 0 THEN ""
        ELSE IF Alias(c) = 0 THEN "unknown argument: -" \o c
        ELSE IF j < Len(name)
        THEN InvalidValue("-" \o c, P.args[Alias(c)].ArgType, From(name, j))
        ELSE NextValueError(t, "-" \o c, P.args[Alias(c)].ArgType)

PlainError(t) ==
    LET n == Cardinality({ u \in PositionalTokens : u <= t })
    IN  IF IsValueToken(t) THEN ""
        ELSE IF n > Len(P.positional) THEN "unrecognized positional argument: " \o Tokens[t]
        ELSE InvalidValue(P.positional[n].Name, P.positional[n].ArgType, Tokens[t])

TokenError(t) ==
    IF HasPrefix(Tokens[t], "--") THEN LongError(t)
    ELSE IF HasPrefix(Tokens[t], "-") THEN ShortError(t)
    ELSE PlainError(t)

Offending == { t \in 1..Len(Tokens) : TokenError(t) # "" }

Leftmost == CHOOSE t \in Offending : \A u \in Offending : t <= u

\* C13: a Parse that is not handed to a subcommand returns a result and no
\* error, or an error and no result; when some token is in error, what it
\* returns is the error of the leftmost such token, whatever required
\* definition is missing
C13_FailFast ==
    (Walked /\ ~Delegated) =>
        /\ last.kind = "ok" => (~last.result.isnil /\ last.err = "")
        /\ last.kind = "err" => (last.result.isnil /\ last.err # "")
        /\ Offending # {} => (last.kind = "err" /\ last.err = TokenError(Leftmost))

\* token t names an option that is not registered: a long name, or a
\* character of a short token that is reached as an alias
IsUnknown(t) == HasPrefix(TokenError(t), "unknown argument: ")

\* C14: a token with an unregistered long name, or with a character at any
\* position that is no registered alias and no part of a fused value, makes
\* Parse return an error, and the unknown-argument error naming it when no
\* token before it is in error
C14_UnknownOptionsFatal ==
    (Walked /\ ~Delegated) =>
        \A t \in 1..Len(Tokens) :
            IsUnknown(t) =>
                /\ last.kind = "err"
                /\ t = Leftmost => last.err = TokenError(t)

\* the value-taking definition that ends a token which WantsValue, and the
\* way the token writes it
Wanting(tok) ==
    IF HasPrefix(tok, "--") THEN FirstByName(P.args, From(tok, 2), 1)
    ELSE Alias(Char(tok, Len(tok)))

ShownAs(tok) == IF HasPrefix(tok, "--") THEN tok ELSE "-" \o Char(tok, Len(tok))

\* C15: a value-taking option written as --name without =value, or as the
\* alias that ends its token, with no token in error before it: when the
\* next token exists and has no leading dash it is the option's value (if
\* it is the last token and the call succeeds, the result holds it coerced
\* under the option's name); otherwise Parse returns the requires-a-value
\* error naming the option
C15_MissingValue ==
    (Walked /\ ~Delegated) =>
        \A t \in 1..Len(Tokens) :
            (WantsValue(Tokens[t]) /\ \A u \in 1..(t - 1) : TokenError(u) = "") =>
                IF NextIsValue(Tokens, t - 1)
                THEN (last.kind = "ok" /\ t + 1 = Len(Tokens)) =>
                        Lookup(last.result.m, P.args[Wanting(Tokens[t])].Name) =
                            parseValue(P.args[Wanting(Tokens[t])].ArgType, Tokens[t + 1]).v
                ELSE /\ last.kind = "err"
                     /\ last.err = "argument " \o ShownAs(Tokens[t]) \o " requires a value"

\* the rank of token t among the tokens that have no leading dash and are
\* no option's value
Rank(t) == Cardinality({ u \in PositionalTokens : u <= t })

ParseOrExitStep == ncalls' = ncalls + 1 /\ last'.op = "ParseOrExit"

\* how the call ends, given r, the Parse of the process arguments it makes
ExitsAs(r) ==
    /\ r.kind = "err" =>
          /\ exited' = 1
          /\ last'.out = r.out \o << [stream |-> "stderr", text |-> "Error: " \o r.err],
                                     PrintHelp(parsers, last'.p) >>
    /\ r.kind = "exit" => (exited' = 0 /\ last'.out = r.out)
    /\ r.kind = "ok" => (exited' = -1 /\ last'.result = r.result /\ ~last'.result.isnil)

VersionTokens == {"-V", "--version"}

\* the parser defines version under both of its names, as AddVersion does
DefinesVersion(p) ==
    /\ FirstByName(p.args, "version", 1) # 0
    /\ FirstByShortName(p.args, "V", 1) # 0

\* the process arguments are nothing but help tokens, or nothing but
\* version tokens, and the parser defines the option
OnlyAsksFor(tokens, p) ==
    /\ Len(osArgs) > 0
    /\ \A t \in 1..Len(osArgs) : osArgs[t] \in tokens
    /\ IF tokens = HelpTokens THEN DefinesHelp(p) ELSE DefinesVersion(p)

\* C17 as stated: status 0 when the process arguments ask for help or
\* version, else status 1 when the Parse returns an error, else the result
\* returned and the process not ended
C17_ExitZeroWhenRequested ==
    last.op = "ParseOrExit" =>
        IF \E t \in 1..Len(Tokens) : Tokens[t] \in HelpTokens \cup VersionTokens
        THEN exited = 0
        ELSE IF last.kind = "err" THEN exited = 1
        ELSE exited = -1 /\ ~last.result.isnil

\* C17, amended: ParseOrExit ends the process with status 1, the error and
\* then the help printed, when the Parse of the process arguments returns
\* an error, a help or version token among them or not; with status 0 when
\* that Parse displays help or version, as it does for arguments that only
\* ask for help or version on a parser that defines the option; otherwise
\* it returns the result of that Parse and the process goes on
C17_ExitStatuses ==
    [][ParseOrExitStep =>
          /\ ExitsAs(ParseCall(parsers, last'.p, osArgs))
          /\ (\/ OnlyAsksFor(HelpTokens, parsers[last'.p])
              \/ OnlyAsksFor(VersionTokens, parsers[last'.p])) => exited' = 0]_vars

\* ParseOrExit has ended the process with status 1, the error and the help
\* printed, for arguments that ask for version
C17_Witness ==
    /\ last.op = "ParseOrExit"
    /\ last.kind = "err"
    /\ exited = 1
    /\ Len(last.out) >= 2
    /\ \E t \in 1..Len(Tokens) : Tokens[t] \in VersionTokens

(***************************************************************************)
(* C18: help and version tokens on a parser that defines no such option.   *)
(***************************************************************************)
\* the parser that meets the first token the last call did not hand on as a
\* subcommand name, and the index of that token
Handler == IF Delegated THEN P.subparsers[Tokens[1]] ELSE last.p

Met == IF Delegated THEN 2 ELSE 1

\* the parser defines no option that the token names
Undefined(p, tok) ==
    IF HasPrefix(tok, "--") THEN FirstByName(p.args, From(tok, 2), 1) = 0
    ELSE FirstByShortName(p.args, From(tok, 1), 1) = 0

\* the last call met a help or version token, before any other token, on a
\* parser that defines no such option
AskedUndefined ==
    /\ Walked
    /\ Len(Tokens) >= Met
    /\ Tokens[Met] \in HelpTokens \cup VersionTokens
    /\ Undefined(parsers[Handler], Tokens[Met])

\* C18 as stated: such a token produces no unknown-argument error
C18_NoUnknownForHelp ==
    AskedUndefined => ~HasPrefix(last.err, "unknown argument: ")

\* the walk of parser q over the one token tok
Over(q, tok) == Step(WalkStart(parsers, q), q, <<tok>>)

\* C18, amended: on a parser that defines no such option the token does
\* set the help or version flag, and the lookup that follows still fails:
\* Parse returns the unknown-argument error naming the token, with no
\* result, nothing displayed and no exit with status 0
C18_FlagSetButUnknown ==
    AskedUndefined =>
        /\ Over(Handler, Tokens[Met]).hasHelpFlag = (Tokens[Met] \in HelpTokens)
        /\ Over(Handler, Tokens[Met]).hasVersionFlag = (Tokens[Met] \in VersionTokens)
        /\ last.kind = "err"
        /\ last.err = "unknown argument: " \o Tokens[Met]
        /\ last.result.isnil
        /\ exited # 0

\* a subcommand's parser, which defines no help, has met -h
C18_Witness ==
    /\ AskedUndefined
    /\ Delegated
    /\ Tokens[Met] = "-h"
    /\ last.err = "unknown argument: -h"

(***************************************************************************)
(* C19, C20: when a Parse delegates, and what the parent still checks.     *)
(***************************************************************************)
\* the step is a Parse call, or the Parse inside ParseOrExit
ParseStep == ncalls' = ncalls + 1 /\ last'.op \in {"Parse", "ParseOrExit"}

\* C19: a Parse delegates exactly when its first token names a subcommand
\* of its parser. When it does, the parser records that name and the
\* parsers change as by the one parse of that child on the remaining
\* tokens, whatever subcommand names are among them. When it does not, the
\* parser records no subcommand, no other parser is touched and the result
\* has no "subcommand" entry, also when a later token names a subcommand
C19_DelegatesOnlyAtFirstToken ==
    [][ParseStep =>
          IF DelegatingStep
          THEN parsers' = [ChildParse.ps EXCEPT ![last'.p].subparser = last'.args[1]]
          ELSE /\ parsers'[last'.p].subparser = parsers[last'.p].subparser
               /\ \A q \in DOMAIN parsers : q # last'.p => parsers'[q] = parsers[q]
               /\ last'.kind = "ok" => Lookup(last'.result.m, "subcommand") = Nil]_vars

\* the name of a subcommand after another token was taken as a positional:
\* the parser has none, and has recorded no subcommand
C19_Witness ==
    /\ Walked
    /\ Tokens = <<"-v", "remote">>
    /\ "remote" \in DOMAIN P.subparsers
    /\ last.err = "unrecognized positional argument: remote"
    /\ P.subparser = ""

\* the child parser a delegating step selects
Child == parsers[last'.p].subparsers[last'.args[1]]

\* a parser has a required definition
HasRequired(p) ==
    \/ \E k \in 1..Len(p.args) : p.args[k].IsRequired
    \/ \E n \in 1..Len(p.positional) : p.positional[n].IsRequired

\* C20: a Parse whose first token selects a subcommand succeeds whenever
\* the child's parse of the remaining tokens succeeds, whatever required
\* definitions of the parent were never supplied; the child's required
\* check is made: a missing-required error of the child is the error of the
\* call, a successful call leaves no required definition of a child that
\* did not delegate further unmarked, and on newly built parsers a child
\* with a required definition and no token left returns that error
C20_ParentRequiredSkipped ==
    [][DelegatingStep =>
          /\ ChildParse.kind = "ok" => last'.kind = "ok"
          /\ (ChildParse.kind = "err" /\ IsMissingRequired(ChildParse.err)) =>
                (last'.kind = "err" /\ last'.err = ChildParse.err)
          /\ (last'.kind = "ok" /\ parsers'[Child].subparser = "") =>
                /\ FirstMissing(parsers'[Child].args, 1) = 0
                /\ FirstMissing(parsers'[Child].positional, 1) = 0
          /\ (ncalls = 0 /\ Len(last'.args) = 1 /\ HasRequired(parsers[Child])) =>
                (last'.kind = "err" /\ IsMissingRequired(last'.err))]_vars

\* a delegated Parse has succeeded although a required definition of the
\* parent was never supplied
C20_Witness ==
    /\ Parsed
    /\ Delegated
    /\ last.kind = "ok"
    /\ \E k \in 1..Len(P.args) : P.args[k].IsRequired /\ ~P.args[k].isSet

(***************************************************************************)
(* C21: the "subcommand" entry of a delegating call.                       *)
(***************************************************************************)
\* C21: the result of a successful Parse whose first token names a
\* subcommand holds that token under "subcommand", also when the child
\* delegated to a subcommand of its own
C21_SubcommandNamesInvokedChild ==
    (Parsed /\ Delegated /\ last.kind = "ok") =>
        Lookup(last.result.m, "subcommand") = VString(Tokens[1])

(***************************************************************************)
(* C22: a boolean or counter given as --name=value.                        *)
(***************************************************************************)
\* the long name a token writes, before any =
LongName(tok) == SplitN2(From(tok, 2))[1]

\* token t is --name=value for a boolean or counter definition
IsInlineFlag(t) ==
    /\ HasPrefix(Tokens[t], "--")
    /\ Len(SplitN2(From(Tokens[t], 2))) > 1
    /\ FirstByName(P.args, LongName(Tokens[t]), 1) # 0
    /\ ~TakesValue(FirstByName(P.args, LongName(Tokens[t]), 1))

\* the walk of the last call's parser as it stands before token t, nothing
\* stored yet, and after the iteration for token t
Before(t) == [WalkStart(parsers, last.p) EXCEPT !.i = t - 1]

After(t) == Step(Before(t), last.p, Tokens)

\* the tokens of the last call that name the k-th definition as a whole
\* token: --name, --name=value or -c
Naming(k) ==
    { u \in 1..Len(Tokens) :
        \/ HasPrefix(Tokens[u], "--") /\ LongName(Tokens[u]) = P.args[k].Name
        \/ P.args[k].ShortName # "" /\ Tokens[u] = "-" \o P.args[k].ShortName }

\* what a successful call returns for the definition an inline flag names
InlineStored(k) ==
    IF P.args[k].ArgType = ArgTypeBool
    THEN Lookup(last.result.m, P.args[k].Name) = VBool(TRUE)
    ELSE Lookup(last.result.m, P.args[k].Name) =
             VInt(Lookup(Before(1).result, P.args[k].Name).i + Cardinality(Naming(k)))

\* C22: for a token --name=value that names a boolean or counter
\* definition, the iteration stores true, or the count plus exactly one,
\* returns no error whatever the value and moves the cursor by one token;
\* a successful call returns true for the boolean and, for the counter,
\* its default plus the number of tokens naming it, and a following token
\* without a leading dash is matched as a positional
C22_PresenceAlone ==
    (Walked /\ ~Delegated) =>
        \A t \in 1..Len(Tokens) :
            IsInlineFlag(t) =>
                LET k == FirstByName(P.args, LongName(Tokens[t]), 1)
                IN  /\ After(t).kind = "run"
                    /\ After(t).i = t
                    /\ After(t).result[P.args[k].Name] =
                          IF P.args[k].ArgType = ArgTypeBool THEN VBool(TRUE)
                          ELSE VInt(Lookup(Before(t).result, P.args[k].Name).i + 1)
                    /\ (last.kind = "ok" /\ WholeTokens) =>
                          /\ InlineStored(k)
                          /\ (t < Len(Tokens) /\ ~HasPrefix(Tokens[t + 1], "-")) =>
                                /\ t + 1 \in PositionalTokens
                                /\ Rank(t + 1) <= Len(P.positional)
                                /\ Lookup(last.result.m, P.positional[Rank(t + 1)].Name) =
                                      parseValue(P.positional[Rank(t + 1)].ArgType,
                                                 Tokens[t + 1]).v

\* --alpha=false --verbose=5 x has set alpha, counted verbose once above its
\* default of 2 and left x to the positional
C22_Witness ==
    /\ Walked
    /\ Tokens = <<"--alpha=false", "--verbose=5", "x">>
    /\ last.kind = "ok"
    /\ Lookup(last.result.m, "alpha") = VBool(TRUE)
    /\ Lookup(last.result.m, "verbose") = VInt(3)
    /\ Lookup(last.result.m, "input") = VString("x")

(***************************************************************************)
(* C23: the optional definitions of one parser.                            *)
(***************************************************************************)
\* C23: at every point of a program no two optional definitions of one
\* parser share a long name, and no two share a non-empty short alias
C23_RegistryUnique ==
    \A p \in DOMAIN parsers :
        \A i, j \in 1..Len(parsers[p].args) :
            i < j =>
                /\ parsers[p].args[i].Name # parsers[p].args[j].Name
                /\ \/ parsers[p].args[i].ShortName = ""
                   \/ parsers[p].args[i].ShortName # parsers[p].args[j].ShortName

(***************************************************************************)
(* C24: termination of Parse.                                              *)
(***************************************************************************)
\* a call of the library has been made: a Parse, or a getter and the Parse
\* of the process arguments it makes. The walk of its tokens is followed
\* below on the parsers as the call has left them: the seen marks, all that
\* a call changes in them, are read by no iteration of the loop
HasCalled == last.op # "none"

RECURSIVE WalkTerminates(_, _, _, _)
\* the iteration took the walk from w to s: it returned or left the cursor
\* further on, and the walk from s on terminates within n iterations
Advances(s, w, q, b, n) ==
    /\ s.kind # "run" \/ s.i > w.i
    /\ WalkTerminates(s, q, b, n)

\* the loop of parser q over the tokens b, from the walk state w on, moves
\* its cursor forward in every iteration and is over after at most n more
WalkTerminates(w, q, b, n) ==
    IF w.kind # "run" \/ w.i >= Len(b) THEN TRUE
    ELSE IF n = 0 THEN FALSE
    ELSE Advances(Step(w, q, b), w, q, b, n - 1)

\* the loop of parser q over b is over after at most Len(b) iterations
LoopTerminates(q, b) == WalkTerminates(WalkStart(parsers, q), q, b, Len(b))

RECURSIVE ChainTerminates(_, _)
\* the same for parser q, for the child it hands the rest of b to, which
\* gets fewer tokens than q got, and so on down the tree
ChainTerminates(q, b) ==
    /\ LoopTerminates(q, b)
    /\ (Len(b) > 0 /\ b[1] \in DOMAIN parsers[q].subparsers) =>
          /\ Len(SubArgs(b)) < Len(b)
          /\ ChainTerminates(parsers[q].subparsers[b[1]], SubArgs(b))

\* C24: every call ends, with a result, an error or the exit of the
\* process; in each parser the call reaches the token cursor strictly
\* increases with every iteration of the loop, and each delegation hands
\* the child fewer tokens than the parser got
C24_ParseTerminates ==
    HasCalled =>
        /\ last.kind \in {"ok", "err", "exit"}
        /\ ChainTerminates(last.p, last.args)

\* a call that delegated and whose child took the token after an option as
\* its value has returned a result
C24_Witness ==
    /\ Walked
    /\ Tokens = <<"add", "-t", "X">>
    /\ last.kind = "ok"
    /\ Lookup(last.result.m, "title") = VString("X")

(***************************************************************************)
(* C25: the seen marks over the life of a program.                         *)
(***************************************************************************)
\* every mark of defs that is set is set in the list the step leaves
StaysSet(defs, after) ==
    \A k \in 1..Len(defs) : defs[k].isSet => (k <= Len(after) /\ after[k].isSet)

\* the mark that token t of the last call sets: of the option it names, or
\* of the positional definition it is matched to; a value sets none
MarkedBy(t) ==
    IF IsValueToken(t) THEN TRUE
    ELSE IF HasPrefix(Tokens[t], "--")
    THEN P.args[FirstByName(P.args, LongName(Tokens[t]), 1)].isSet
    ELSE IF HasPrefix(Tokens[t], "-") THEN P.args[Alias(Char(Tokens[t], 2))].isSet
    ELSE P.positional[Rank(t)].isSet

\* the last call was a Parse that returned an error after its first token,
\* which was in order, and that token has left its mark
FailedKeepsMarks ==
    (Walked /\ last.kind = "err" /\ Len(Tokens) > 0 /\ ~Delegated /\ WholeTokens
        /\ TokenError(1) = "") =>
        MarkedBy(1)

\* C25: no step of a program, a registration, a Parse or ParseOrExit, a
\* getter, takes a seen mark from set to unset; and a Parse that returns an
\* error for a later token, or for a missing definition, leaves set the
\* mark of the first token it handled
C25_MarksOnlySet ==
    [][/\ \A p \in DOMAIN parsers :
            /\ p \in DOMAIN parsers'
            /\ StaysSet(parsers[p].args, parsers'[p].args)
            /\ StaysSet(parsers[p].positional, parsers'[p].positional)
       /\ FailedKeepsMarks']_vars

\* the first call on newly built parsers returned an error and has left a
\* mark set: the parser is not as it was before the call
C25_Witness ==
    /\ Walked
    /\ ncalls = 1
    /\ last.kind = "err"
    /\ \E k \in 1..Len(P.args) : P.args[k].isSet

(***************************************************************************)
(* C26: the roles of the tokens of one call.                               *)
(***************************************************************************)
\* the iteration of parser q at cursor i took b[i + 2] as the value of the
\* option b[i + 1]: the token is --name or -c for a value-taking definition,
\* a token without a leading dash follows, and the iteration, which ended
\* as s, stored that token coerced
TookValue(s, i, q, b) ==
    /\ s.kind = "run"
    /\ NextIsValue(b, i)
    /\ \E k \in 1..Len(parsers[q].args) :
          /\ parsers[q].args[k].ArgType \notin {ArgTypeBool, ArgTypeCounter}
          /\ \/ b[i + 1] = "--" \o parsers[q].args[k].Name
             \/ b[i + 1] = "-" \o parsers[q].args[k].ShortName
          /\ Lookup(s.result, parsers[q].args[k].Name) =
                parseValue(parsers[q].args[k].ArgType, b[i + 2]).v

RECURSIVE Examined(_, _, _, _)
\* how often each token of b gets a role from the walk state w on, within
\* n iterations: once for the token at the cursor, once for a token taken
\* as a value; s is the walk after the iteration at w, rest the count from
\* s on
Counted(rest, s, w, q, b) ==
    [t \in 1..Len(b) |->
        rest[t]
        + (IF t = w.i + 1 THEN 1 ELSE 0)
        + (IF t = w.i + 2 /\ TookValue(s, w.i, q, b) THEN 1 ELSE 0)]

\* the walk has gone from w to s
CountedFrom(s, w, q, b, n) == Counted(Examined(s, q, b, n), s, w, q, b)

Examined(w, q, b, n) ==
    IF w.kind # "run" \/ w.i >= Len(b) \/ n = 0 THEN [t \in 1..Len(b) |-> 0]
    ELSE CountedFrom(Step(w, q, b), w, q, b, n - 1)

\* no token of b has two roles, the tokens with a role are the first so
\* many, and all of them when the walk of q reaches the end of b
OnceEach(v, q, b) ==
    /\ \A t \in 1..Len(b) : v[t] <= 1
    /\ \A t, u \in 1..Len(b) : (u < t /\ v[t] = 1) => v[u] = 1
    /\ Loop(WalkStart(parsers, q), q, b).kind = "run" => \A t \in 1..Len(b) : v[t] = 1

RECURSIVE ChainOnceEach(_, _)
\* the same for parser q and, when it hands on the tokens after a
\* subcommand name, for the child and those tokens
ChainOnceEach(q, b) ==
    /\ OnceEach(Examined(WalkStart(parsers, q), q, b, Len(b)), q, b)
    /\ (Len(b) > 0 /\ b[1] \in DOMAIN parsers[q].subparsers) =>
          ChainOnceEach(parsers[q].subparsers[b[1]], SubArgs(b))

\* the last call succeeded on options and their values and nothing else:
\* no positional definition has got a value from the tokens
ValueIsNoPositional ==
    (Walked /\ ~Delegated /\ last.kind = "ok" /\ WholeTokens /\ PositionalTokens = {}) =>
        \A n \in 1..Len(P.positional) :
            /\ ncalls = 1 => ~P.positional[n].isSet
            /\ Lookup(last.result.m, P.positional[n].Name) =
                  Lookup(Before(1).result, P.positional[n].Name)

\* C26: in every parser a call reaches, each token the walk comes to gets
\* exactly one role: it is at the cursor of one iteration (as a subcommand
\* name, an option or a positional) or it is taken as the value of the
\* option before it, never both and never twice, and no token before the
\* end of the walk is left out; a token taken as a value gives no
\* positional definition a value
C26_OneRolePerToken ==
    HasCalled => (ChainOnceEach(last.p, last.args) /\ ValueIsNoPositional)

\* -n Al -m turbo has stored Al under name and turbo under mode and left
\* the positional at its default
C26_Witness ==
    /\ Walked
    /\ Tokens = <<"-n", "Al", "-m", "turbo">>
    /\ last.kind = "ok"
    /\ Lookup(last.result.m, "name") = VString("Al")
    /\ Lookup(last.result.m, "config") = VString("default.conf")

====
